---------------------------- MODULE Spec2Model ----------------------------
(***************************************************************************)
(* Voice Journal bot (huttj/telegram-bots): the query classifier, the date *)
(* filter, the vector search, the voice-message ingestion handler, the     *)
(* text-query handler with the period fetches and generateResponse, the    *)
(* admin server's transcript edit and delete, and the embedding backfill,  *)
(* modelled from src/unnamed/part_000 (the bot's main module, lines        *)
(* 362-922), src/lib/telegram-helpers.js, src/lib/r2-client.js and         *)
(* src/admin-server.js; and the date parser of the string grammar, from    *)
(* src/index.js.                                                           *)
(*                                                                         *)
(* Conventions.                                                            *)
(*  - A JavaScript number is a record [k |-> "num", v |-> integer]; NaN,    *)
(*    null and undefined are records of the same shape with another k.     *)
(*    Timestamps are in seconds, as in the code.                           *)
(*  - The code between two awaits runs atomically (one JavaScript thread), *)
(*    so each action is one such segment of a handler.                     *)
(*  - Every external call (Telegram, R2, Groq, OpenRouter) may resolve or  *)
(*    reject; its result is drawn from a small set.                        *)
(***************************************************************************)
EXTENDS Integers, Sequences, FiniteSets, TLC

VARIABLES
  tz,                   \* process timezone: seconds east of UTC
  transcripts,          \* table transcripts, rows in rowid order
  r2,                   \* keys of the objects stored in the R2 bucket
  embeddingModelReady,  \* telegram-helpers.js: let embeddingModelReady
  voice,                \* running bot.on('voice') handler instances
  outcomes,             \* how each finished handling of a message ended
  cq,                   \* the classifyQuery call in progress
  df,                   \* the parseDateFilter / applyDateFilter call
  vs,                   \* the vectorSearch call in progress
  now,                  \* the clock: seconds since the epoch
  textHandler,          \* the bot.on('text') handler in progress
  admin,                \* the admin server: its environment and its requests
  backfill,             \* the backfillEmbeddings call in progress
  middleware,           \* the authorization middleware: the updates it has seen
  taste,                \* the taste bot: its tables and its voice handler
  startup,              \* evaluation of the main module, then the running process
  poll                  \* the long-polling loop of src/bot.js

vars == <<tz, transcripts, r2, embeddingModelReady, voice, outcomes, cq, df, vs,
          now, textHandler, admin, backfill, middleware, taste, startup, poll>>

\* Absent object fields and absent strings.
Undefined == "undefined"
Null == "null"

\* No text handler and no admin request in progress.
TextIdle == [pc |-> "idle"]
AdminIdle == [apiKey |-> FALSE, reqs |-> <<>>]
BackfillIdle == [pc |-> "idle", records |-> <<>>, successCount |-> 0]

\* No update seen by the middleware, an empty taste archive, a process that
\* has not been started and a polling loop that has not been entered.
NoFrom == [present |-> FALSE, id |-> 0]
MiddlewareIdle == [updates |-> 0, from |-> NoFrom, next |-> FALSE]
TasteIdle == [pc |-> "idle"]
StartupIdle == [pc |-> "idle"]
PollIdle == [pc |-> "idle"]

\* JavaScript numbers, NaN and null as values of one shape.
Num(n) == [k |-> "num", v |-> n]
NaN == [k |-> "NaN", v |-> 0]
JsNull == [k |-> "null", v |-> 0]


(***************************************************************************)
(* Rows of the transcripts table (part_000:422-433).                       *)
(***************************************************************************)
\* The embedding column: NULL, or a Buffer of 4 bytes per component.
NoEmbedding == [isNull |-> TRUE, bytes |-> 0, f32 |-> <<>>]

\* embeddingToBuffer (telegram-helpers.js:210-216): one little-endian
\* float32 per component.  The model's components are small integers,
\* which float32 holds exactly.
embeddingToBuffer(embedding) ==
  [isNull |-> FALSE, bytes |-> Len(embedding) * 4, f32 |-> embedding]

\* bufferToEmbedding (telegram-helpers.js:223-229): reads a float at every
\* fourth byte.
bufferToEmbedding(buffer) ==
  [i \in 1..(buffer.bytes \div 4) |-> buffer.f32[i]]

\* The r2_key column: NULL, or the object key
\* voice-journal/voice-notes/<formatted date>-<message id>.ogg (part_000:750).
NoKey == [isNull |-> TRUE, date |-> 0, message_id |-> 0]
R2Key(date, messageId) == [isNull |-> FALSE, date |-> date, message_id |-> messageId]

TranscriptRow(id, messageId, fileId, key, text, createdAt, embedding) ==
  [id |-> id, message_id |-> messageId, voice_file_id |-> fileId, r2_key |-> key,
   transcript |-> text, created_at |-> createdAt, duration |-> 5,
   embedding |-> embedding]

(***************************************************************************)
(* parseDateFilter and applyDateFilter (part_000:595-656)                  *)
(*                                                                         *)
(* A date string is modelled by the calendar day it names, counted in days *)
(* since 1970-01-01, or is a string no Date can parse.  The process runs   *)
(* in a timezone tz seconds east of UTC (daylight saving is left out), so  *)
(* local midnight of day d is the instant d * 86400 - tz.                  *)
(***************************************************************************)
SecondsPerDay == 86400

Absent == [k |-> "absent", d |-> 0]      \* the field is missing
Garbage == [k |-> "bad", d |-> 0]        \* a string that is not a date
Day(d) == [k |-> "day", d |-> d]         \* "YYYY-MM-DD" naming day d

Dec31_1969 == -1
Jan1_1970 == 0
Jan15_2026 == 20468
Jan16_2026 == 20469

\* Math.floor(new Date(str + 'T00:00:00Z').getTime() / 1000): midnight UTC
\* of the day; NaN for an invalid date.
DateToTimestamp(str) ==
  IF str.k = "day" THEN Num(str.d * SecondsPerDay) ELSE NaN

\* x + n on a number or NaN.
JsAdd(x, n) == IF x.k = "num" THEN Num(x.v + n) ELSE NaN

\* Truthiness of a number, NaN or null: false for 0, NaN and null.
Truthy(x) == x.k = "num" /\ x.v # 0

\* Truthiness of a string field: false when it is missing.
FieldTruthy(f) == f.k # "absent"

\* Elements of a dateFilter list: null, a primitive (a string or number,
\* whose properties are undefined) or an object with some of the fields.
NullElem == [kind |-> "null", date |-> Absent, start |-> Absent, end |-> Absent]
PrimElem == [kind |-> "prim", date |-> Absent, start |-> Absent, end |-> Absent]
Obj(date, start, end) == [kind |-> "obj", date |-> date, start |-> start, end |-> end]

NoRange == [start |-> NaN, end |-> NaN, form |-> "none", a |-> Absent, b |-> Absent]

\* One iteration of the loop body (part_000:602-636): the range pushed for
\* the element, if any.  description is kept as its form and its parts.
RangeOfFilter(filter) ==
  IF FieldTruthy(filter.date)
    THEN LET startOfDay == DateToTimestamp(filter.date)
         IN <<[start |-> startOfDay, end |-> JsAdd(startOfDay, SecondsPerDay),
               form |-> "date", a |-> filter.date, b |-> Absent]>>
  ELSE IF FieldTruthy(filter.start) /\ FieldTruthy(filter.end)
    THEN <<[start |-> DateToTimestamp(filter.start),
            end |-> JsAdd(DateToTimestamp(filter.end), SecondsPerDay),
            form |-> "range", a |-> filter.start, b |-> filter.end]>>
  ELSE IF FieldTruthy(filter.start)
    THEN <<[start |-> DateToTimestamp(filter.start), end |-> JsNull,
            form |-> "from", a |-> filter.start, b |-> Absent]>>
  ELSE <<>>

\* The for loop (part_000:601-637).  Reading filter.date of a null element
\* throws a TypeError, which nothing in parseDateFilter catches.
RECURSIVE ParseFilters(_, _)
ParseFilters(items, ranges) ==
  IF items = <<>> THEN [threw |-> FALSE, ranges |-> ranges]
  ELSE IF Head(items).kind = "null" THEN [threw |-> TRUE, ranges |-> <<>>]
  ELSE ParseFilters(Tail(items), ranges \o RangeOfFilter(Head(items)))

\* The values a dateFilter argument can take: null or undefined, a value
\* that is not an array (a string of the older grammar), or an array.
NoFilter == [k |-> "null", items |-> <<>>]
StringFilter == [k |-> "other", items |-> <<>>]
ListFilter(items) == [k |-> "array", items |-> items]

\* parseDateFilter (part_000:595-640): isNull says that null was returned.
parseDateFilter(dateFilter) ==
  IF dateFilter.k # "array"
    THEN [threw |-> FALSE, isNull |-> TRUE, ranges |-> <<>>]
    ELSE LET r == ParseFilters(dateFilter.items, <<>>)
         IN IF r.threw THEN [threw |-> TRUE, isNull |-> FALSE, ranges |-> <<>>]
            ELSE [threw |-> FALSE, isNull |-> Len(r.ranges) = 0, ranges |-> r.ranges]

\* The body of ranges.some (part_000:649-654).
RangeMatches(range, t) ==
  IF Truthy(range.start) /\ t.created_at < range.start.v THEN FALSE
  ELSE IF Truthy(range.end) /\ t.created_at >= range.end.v THEN FALSE
  ELSE TRUE

\* Array.prototype.filter: the elements that satisfy keep, in order.
RECURSIVE FilterRows(_, _)
FilterRows(rows, ranges) ==
  IF rows = <<>> THEN <<>>
  ELSE LET rest == FilterRows(Tail(rows), ranges)
       IN IF \E i \in 1..Len(ranges) : RangeMatches(ranges[i], Head(rows))
            THEN <<Head(rows)>> \o rest
            ELSE rest

\* applyDateFilter (part_000:643-656).
applyDateFilter(rows, dateFilter) ==
  LET ranges == parseDateFilter(dateFilter)
  IN IF ranges.threw THEN [threw |-> TRUE, rows |-> <<>>]
     ELSE IF ranges.isNull THEN [threw |-> FALSE, rows |-> rows]
     ELSE [threw |-> FALSE, rows |-> FilterRows(rows, ranges.ranges)]

\* Inputs of the date-filter functions.
MaxFilterLen == 2
MaxRows == 2

TzOffsets == {-28800, 0, 3600}

FilterElems ==
  {NullElem, PrimElem, Obj(Absent, Absent, Absent),
   Obj(Day(Jan15_2026), Absent, Absent),
   Obj(Day(Dec31_1969), Absent, Absent),
   Obj(Day(Jan1_1970), Absent, Absent),
   Obj(Garbage, Absent, Absent),
   Obj(Absent, Day(Jan15_2026), Day(Jan16_2026)),
   Obj(Absent, Day(Dec31_1969), Day(Dec31_1969)),
   Obj(Absent, Day(Jan16_2026), Absent),
   Obj(Absent, Absent, Day(Jan15_2026))}

DateFilters ==
  {NoFilter, StringFilter}
    \cup {ListFilter(items) : items \in UNION {[1..n -> FilterElems] : n \in 0..MaxFilterLen}}

\* created_at values: around the epoch, around the UTC and the local
\* boundaries of 2026-01-15, and around the end of 2026-01-16.
CreatedAts ==
  {-1, 100,
   Jan15_2026 * SecondsPerDay - 1,
   Jan15_2026 * SecondsPerDay + 28800,
   Jan16_2026 * SecondsPerDay,
   Jan16_2026 * SecondsPerDay + 28800 - 1,
   (Jan16_2026 + 1) * SecondsPerDay - 1,
   (Jan16_2026 + 1) * SecondsPerDay}

RowsAt(times) ==
  [i \in 1..Len(times) |-> TranscriptRow(i, i, "f", NoKey, "text", times[i], embeddingToBuffer(<<1, 0>>))]

RowLists == {RowsAt(times) : times \in UNION {[1..n -> CreatedAts] : n \in 0..MaxRows}}

DfIdle ==
  [pc |-> "idle", op |-> "none", dateFilter |-> NoFilter, rows |-> <<>>,
   parsed |-> parseDateFilter(NoFilter), out |-> applyDateFilter(<<>>, NoFilter)]

\* parseDateFilter(dateFilter) is called and returns or throws.
ParseDateFilterCall(dateFilter) ==
  /\ df.pc = "idle"
  /\ df' = [DfIdle EXCEPT !.pc = "done", !.op = "parse", !.dateFilter = dateFilter,
                          !.parsed = parseDateFilter(dateFilter)]
  /\ UNCHANGED <<middleware, taste, startup, poll, tz, now, backfill, textHandler, admin, transcripts, r2, embeddingModelReady, voice, outcomes, cq, vs>>

\* applyDateFilter(rows, dateFilter) is called and returns or throws.
ApplyDateFilterCall(rows, dateFilter) ==
  /\ df.pc = "idle"
  /\ df' = [pc |-> "done", op |-> "apply", dateFilter |-> dateFilter, rows |-> rows,
            parsed |-> parseDateFilter(dateFilter),
            out |-> applyDateFilter(rows, dateFilter)]
  /\ UNCHANGED <<middleware, taste, startup, poll, tz, now, backfill, textHandler, admin, transcripts, r2, embeddingModelReady, voice, outcomes, cq, vs>>

\* The caller has consumed the result.
DateFilterReturn ==
  /\ df.pc = "done"
  /\ df' = DfIdle
  /\ UNCHANGED <<middleware, taste, startup, poll, tz, now, backfill, textHandler, admin, transcripts, r2, embeddingModelReady, voice, outcomes, cq, vs>>

(***************************************************************************)
(* cosineSimilarity (telegram-helpers.js:191-203) and vectorSearch         *)
(* (part_000:659-685).                                                     *)
(*                                                                         *)
(* A similarity is kept exactly, as the pair (dot, den) standing for the   *)
(* real number dot / sqrt(den) with den = normA * normB, or is NaN.        *)
(* Floating-point rounding is left out.                                    *)
(***************************************************************************)
SimNaN == [k |-> "NaN", dot |-> 0, den |-> 1]

\* The sums of the for loop over the first n components.
RECURSIVE DotProduct(_, _, _)
DotProduct(vecA, vecB, n) ==
  IF n = 0 THEN 0 ELSE DotProduct(vecA, vecB, n - 1) + vecA[n] * vecB[n]

\* The loop runs over vecA.length: when vecB is shorter, vecB[i] is
\* undefined and the sums are NaN; extra components of vecB are ignored.
\* A zero norm divides 0 by 0, which is NaN.
cosineSimilarity(vecA, vecB) ==
  IF Len(vecA) > Len(vecB) THEN SimNaN
  ELSE LET n == Len(vecA)
           normA == DotProduct(vecA, vecA, n)
           normB == DotProduct(vecB, vecB, n)
       IN IF normA * normB = 0 THEN SimNaN
          ELSE [k |-> "num", dot |-> DotProduct(vecA, vecB, n), den |-> normA * normB]

\* x < y for two similarities that are numbers.
SimLess(x, y) ==
  IF x.dot < 0 /\ y.dot >= 0 THEN TRUE
  ELSE IF x.dot >= 0 /\ y.dot < 0 THEN FALSE
  ELSE IF x.dot >= 0 THEN x.dot * x.dot * y.den < y.dot * y.dot * x.den
  ELSE x.dot * x.dot * y.den > y.dot * y.dot * x.den

\* The comparator (a, b) => b.similarity - a.similarity as Array.prototype
\* .sort uses it: its sign, with a NaN difference taken as +0.
SortCompare(a, b) ==
  IF a.similarity.k = "NaN" \/ b.similarity.k = "NaN" THEN 0
  ELSE IF SimLess(b.similarity, a.similarity) THEN -1
  ELSE IF SimLess(a.similarity, b.similarity) THEN 1
  ELSE 0

Reverse(s) == [i \in 1..Len(s) |-> s[Len(s) + 1 - i]]

\* Array.prototype.sort of Node's V8 on an array shorter than 64: the
\* leading run is found (and reversed when strictly descending), then each
\* further element is placed by binary insertion.  The sort is stable; with
\* a consistent comparator the result is the stable order, and with NaN
\* differences it is what this procedure leaves.
RECURSIVE RunLength(_, _, _)
RunLength(arr, idx, isDescending) ==
  IF idx > Len(arr) THEN idx - 1
  ELSE LET order == SortCompare(arr[idx], arr[idx - 1])
       IN IF (isDescending /\ order >= 0) \/ (~isDescending /\ order < 0)
            THEN idx - 1
            ELSE RunLength(arr, idx + 1, isDescending)

RECURSIVE InsertionPoint(_, _, _, _)
InsertionPoint(arr, pivot, left, right) ==
  IF left >= right THEN left
  ELSE LET mid == left + ((right - left) \div 2)
       IN IF SortCompare(pivot, arr[mid]) < 0
            THEN InsertionPoint(arr, pivot, left, mid)
            ELSE InsertionPoint(arr, pivot, mid + 1, right)

RECURSIVE BinaryInsertionSort(_, _)
BinaryInsertionSort(arr, start) ==
  IF start > Len(arr) THEN arr
  ELSE LET pivot == arr[start]
           at == InsertionPoint(arr, pivot, 1, start)
           placed == SubSeq(arr, 1, at - 1) \o <<pivot>> \o SubSeq(arr, at, start - 1)
                       \o SubSeq(arr, start + 1, Len(arr))
       IN BinaryInsertionSort(placed, start + 1)

SortBySimilarity(arr) ==
  IF Len(arr) < 2 THEN arr
  ELSE LET isDescending == SortCompare(arr[2], arr[1]) < 0
           run == RunLength(arr, 3, isDescending)
           made == IF isDescending
                     THEN Reverse(SubSeq(arr, 1, run)) \o SubSeq(arr, run + 1, Len(arr))
                     ELSE arr
       IN BinaryInsertionSort(made, run + 1)

\* SELECT * FROM transcripts WHERE embedding IS NOT NULL, in rowid order.
EmbeddedRows(rows) == SelectSeq(rows, LAMBDA t : ~t.embedding.isNull)

\* The map callback (part_000:677-681).
Scored(queryEmbedding, rows) ==
  [i \in 1..Len(rows) |->
     [row |-> rows[i],
      similarity |-> cosineSimilarity(queryEmbedding, bufferToEmbedding(rows[i].embedding))]]

\* Array.prototype.slice(0, topK) for topK >= 0.
Slice(arr, topK) == SubSeq(arr, 1, IF topK < Len(arr) THEN topK ELSE Len(arr))

\* vectorSearch after the query embedding has resolved (part_000:667-684).
\* `if (dateFilter)` skips the filter for null only.
SearchRows(queryEmbedding, topK, dateFilter, rows) ==
  LET embedded == EmbeddedRows(rows)
      filtered == IF dateFilter.k = "null" THEN [threw |-> FALSE, rows |-> embedded]
                  ELSE applyDateFilter(embedded, dateFilter)
  IN IF filtered.threw THEN [threw |-> TRUE, results |-> <<>>]
     ELSE [threw |-> FALSE,
           results |-> Slice(SortBySimilarity(Scored(queryEmbedding, filtered.rows)), topK)]

\* Inputs of vectorSearch.
MaxStoreRows == 3
DefaultTopK == 5

TopKs == {2, DefaultTopK}

StoredEmbeddings ==
  {NoEmbedding} \cup
    {embeddingToBuffer(e) : e \in {<<1, 0>>, <<1, 1>>, <<0, 1>>, <<0, 0>>, <<1>>}}

QueryEmbeddings == {<<1, 0>>, <<1, 1>>}

SearchCreatedAts == {Jan15_2026 * SecondsPerDay + 28800, Jan16_2026 * SecondsPerDay + 28800}

SearchFilters ==
  {NoFilter, StringFilter, ListFilter(<<>>),
   ListFilter(<<Obj(Absent, Absent, Absent)>>),
   ListFilter(<<NullElem>>),
   ListFilter(<<Obj(Garbage, Absent, Absent)>>),
   ListFilter(<<Obj(Day(Jan15_2026), Absent, Absent)>>)}

Stores ==
  UNION {{[i \in 1..n |-> TranscriptRow(i, i, "f", NoKey, "text", c[i], e[i])] :
            c \in [1..n -> SearchCreatedAts], e \in [1..n -> StoredEmbeddings]} :
         n \in 0..MaxStoreRows}

VsIdle ==
  [pc |-> "idle", queryText |-> "", topK |-> 0, dateFilter |-> NoFilter,
   queryEmbedding |-> <<>>, error |-> "none", results |-> <<>>]

\* vectorSearch is called: the readiness check, then generateEmbedding is
\* awaited (part_000:659-665).  error names the exception vectorSearch
\* rejects with, "none" when it resolves.
VectorSearchStart(queryText, topK, dateFilter) ==
  /\ vs.pc = "idle"
  /\ vs' = IF embeddingModelReady
             THEN [VsIdle EXCEPT !.pc = "embedding", !.queryText = queryText,
                                 !.topK = topK, !.dateFilter = dateFilter]
             ELSE [VsIdle EXCEPT !.pc = "done", !.queryText = queryText,
                                 !.topK = topK, !.dateFilter = dateFilter,
                                 !.error = "not initialized"]
  /\ UNCHANGED <<middleware, taste, startup, poll, tz, now, backfill, textHandler, admin, transcripts, r2, embeddingModelReady, voice, outcomes, cq, df>>

\* generateEmbedding rejects: vectorSearch rejects with it.
QueryEmbeddingRejects ==
  /\ vs.pc = "embedding"
  /\ vs' = [vs EXCEPT !.pc = "done", !.error = "embedding failed"]
  /\ UNCHANGED <<middleware, taste, startup, poll, tz, now, backfill, textHandler, admin, transcripts, r2, embeddingModelReady, voice, outcomes, cq, df>>

\* generateEmbedding resolves: select, filter, score, sort, slice.
QueryEmbeddingResolves(queryEmbedding) ==
  /\ vs.pc = "embedding"
  /\ LET out == SearchRows(queryEmbedding, vs.topK, vs.dateFilter, transcripts)
     IN vs' = [vs EXCEPT !.pc = "done", !.queryEmbedding = queryEmbedding,
                         !.error = IF out.threw THEN "TypeError" ELSE "none",
                         !.results = out.results]
  /\ UNCHANGED <<middleware, taste, startup, poll, tz, now, backfill, textHandler, admin, transcripts, r2, embeddingModelReady, voice, outcomes, cq, df>>

\* The caller has consumed the results.
VectorSearchReturn ==
  /\ vs.pc = "done"
  /\ vs' = VsIdle
  /\ UNCHANGED <<middleware, taste, startup, poll, tz, now, backfill, textHandler, admin, transcripts, r2, embeddingModelReady, voice, outcomes, cq, df>>

(***************************************************************************)
(* bot.on('voice') (part_000:728-783).                                     *)
(*                                                                         *)
(* Every delivered voice update starts a handler instance; instances run   *)
(* concurrently and interleave at their awaits.  voice[h].pc names the     *)
(* await instance h is suspended at.                                       *)
(***************************************************************************)
MaxDeliveries == 2

\* The voice updates Telegram can deliver (any of them more than once):
\* two voice notes, and a later message carrying the first note's file.
VoiceUpdates ==
  {[message_id |-> 1, file_id |-> "fileA", date |-> Jan15_2026 * SecondsPerDay + 28800],
   [message_id |-> 2, file_id |-> "fileB", date |-> Jan16_2026 * SecondsPerDay + 28800],
   [message_id |-> 3, file_id |-> "fileA", date |-> Jan16_2026 * SecondsPerDay + 28800]}

\* What transcribeAudio and generateEmbedding can resolve to.
Transcriptions == {"buy coffee", ""}
TranscriptEmbedding == <<1, 0>>

Handlers == 1..Len(voice)

\* The handler is entered and awaits ctx.react('eyes') (part_000:728-735).
NewHandler(update, again, stored) ==
  [pc |-> "react_eyes", message_id |-> update.message_id, file_id |-> update.file_id,
   date |-> update.date, tempFile |-> FALSE, uploadedKey |-> NoKey, uploaded |-> FALSE,
   transcript |-> "", embeddingBuffer |-> NoEmbedding, inserted |-> FALSE,
   again |-> again, storedAtDelivery |-> stored, externalFailure |-> FALSE,
   failedAt |-> "none",
   outcome |-> "running"]

\* Some row has this message_id / this voice_file_id.
HasMessage(rows, messageId) == \E i \in 1..Len(rows) : rows[i].message_id = messageId
HasFile(rows, fileId) == \E i \in 1..Len(rows) : rows[i].voice_file_id = fileId

\* Another handling of the message is between its duplicate check and its
\* INSERT.
InFlight(messageId) ==
  \E g \in Handlers :
    /\ voice[g].message_id = messageId
    /\ voice[g].pc \in {"download", "upload", "transcribe", "embed"}

\* The handler instances once the update's handler has been entered.
EnterHandler(update) ==
  Append(voice, NewHandler(update,
                           HasMessage(transcripts, update.message_id)
                             \/ InFlight(update.message_id),
                           HasMessage(transcripts, update.message_id)))

VoiceDelivered(update) ==
  /\ Len(voice) < MaxDeliveries
  /\ voice' = EnterHandler(update)
  /\ UNCHANGED <<middleware, taste, startup, poll, tz, now, backfill, textHandler, admin, transcripts, r2, embeddingModelReady, outcomes, cq, df, vs>>

\* An awaited call of the try block rejects: control passes to the catch
\* block, which awaits ctx.react('thumbs down') (part_000:779-781).
ToCatch(h) ==
  voice' = [voice EXCEPT ![h].pc = "react_fail", ![h].externalFailure = TRUE,
                         ![h].failedAt = voice[h].pc]

\* The handler returns or its promise rejects: the outcome is recorded.
Finish(h, outcome) ==
  /\ voice' = [voice EXCEPT ![h].pc = "done", ![h].outcome = outcome]
  /\ outcomes' = outcomes \cup {<<voice[h].message_id, outcome>>}

\* ctx.react('eyes') resolves: the duplicate check on voice_file_id
\* (part_000:738-743), then either ctx.react('check') or the download.
ReactEyesResolves(h) ==
  /\ voice[h].pc = "react_eyes"
  /\ voice' = [voice EXCEPT ![h].pc = IF HasFile(transcripts, voice[h].file_id)
                                        THEN "react_dup" ELSE "download"]
  /\ UNCHANGED <<middleware, taste, startup, poll, tz, now, backfill, textHandler, admin, transcripts, r2, embeddingModelReady, outcomes, cq, df, vs>>

ReactEyesRejects(h) ==
  /\ voice[h].pc = "react_eyes"
  /\ ToCatch(h)
  /\ UNCHANGED <<middleware, taste, startup, poll, tz, now, backfill, textHandler, admin, transcripts, r2, embeddingModelReady, outcomes, cq, df, vs>>

\* ctx.react('check') resolves: return (part_000:741-742).
ReactDupResolves(h) ==
  /\ voice[h].pc = "react_dup"
  /\ Finish(h, "duplicate")
  /\ UNCHANGED <<middleware, taste, startup, poll, tz, now, backfill, textHandler, admin, transcripts, r2, embeddingModelReady, cq, df, vs>>

ReactDupRejects(h) ==
  /\ voice[h].pc = "react_dup"
  /\ ToCatch(h)
  /\ UNCHANGED <<middleware, taste, startup, poll, tz, now, backfill, textHandler, admin, transcripts, r2, embeddingModelReady, outcomes, cq, df, vs>>

\* downloadTelegramFile resolves with the temp file's path; uploadFileToR2
\* is awaited (part_000:746-751).
DownloadResolves(h) ==
  /\ voice[h].pc = "download"
  /\ voice' = [voice EXCEPT ![h].pc = "upload", ![h].tempFile = TRUE]
  /\ UNCHANGED <<middleware, taste, startup, poll, tz, now, backfill, textHandler, admin, transcripts, r2, embeddingModelReady, outcomes, cq, df, vs>>

DownloadRejects(h) ==
  /\ voice[h].pc = "download"
  /\ ToCatch(h)
  /\ UNCHANGED <<middleware, taste, startup, poll, tz, now, backfill, textHandler, admin, transcripts, r2, embeddingModelReady, outcomes, cq, df, vs>>

\* uploadFileToR2 never rejects (r2-client.js:47-68): it resolves with the
\* key once the object is stored, with null when R2 is not configured or
\* the upload failed.  transcribeAudio is awaited next.
UploadResolves(h, ok) ==
  /\ voice[h].pc = "upload"
  /\ LET key == R2Key(voice[h].date, voice[h].message_id)
     IN /\ r2' = IF ok THEN r2 \cup {key} ELSE r2
        /\ voice' = [voice EXCEPT ![h].pc = "transcribe", ![h].uploaded = ok,
                                  ![h].uploadedKey = IF ok THEN key ELSE NoKey]
  /\ UNCHANGED <<middleware, taste, startup, poll, tz, now, backfill, textHandler, admin, transcripts, embeddingModelReady, outcomes, cq, df, vs>>

\* A transcripts table whose message_id column carries no UNIQUE constraint.
UniqueNotEnforced(rows, messageId) == FALSE

\* INSERT INTO transcripts (part_000:768-772) with the UNIQUE constraint on
\* message_id (part_000:425) and the AUTOINCREMENT id.
UniqueViolated(rows, messageId) == HasMessage(rows, messageId)

\* The rest of the try block from the INSERT on (part_000:767-778): a
\* violated constraint throws into the catch block, leaving the temp file;
\* otherwise the row is added, the temp file unlinked and
\* ctx.react('thumbs up') awaited.
InsertSegment(h, transcript, embeddingBuffer) ==
  IF UniqueViolated(transcripts, voice[h].message_id)
    THEN /\ voice' = [voice EXCEPT ![h].pc = "react_fail", ![h].transcript = transcript,
                                   ![h].embeddingBuffer = embeddingBuffer]
         /\ UNCHANGED transcripts
    ELSE /\ transcripts' =
              Append(transcripts,
                     TranscriptRow(Len(transcripts) + 1, voice[h].message_id,
                                   voice[h].file_id, voice[h].uploadedKey, transcript,
                                   voice[h].date, embeddingBuffer))
         /\ voice' = [voice EXCEPT ![h].pc = "react_ok", ![h].transcript = transcript,
                                   ![h].embeddingBuffer = embeddingBuffer,
                                   ![h].inserted = TRUE, ![h].tempFile = FALSE]

\* transcribeAudio resolves: when the embedding model is ready
\* generateEmbedding is awaited, otherwise the row is inserted without an
\* embedding (part_000:754-772).
TranscribeResolves(h, transcript) ==
  /\ voice[h].pc = "transcribe"
  /\ IF embeddingModelReady
       THEN /\ voice' = [voice EXCEPT ![h].pc = "embed", ![h].transcript = transcript]
            /\ UNCHANGED transcripts
       ELSE InsertSegment(h, transcript, NoEmbedding)
  /\ outcomes' = outcomes \cup {<<voice[h].message_id, "transcribed">>}
  /\ UNCHANGED <<middleware, taste, startup, poll, tz, now, backfill, textHandler, admin, r2, embeddingModelReady, cq, df, vs>>

\* A handler that stores a row without a transcript when transcribeAudio
\* rejects.
TranscribeRejectsStoring(h) ==
  /\ voice[h].pc = "transcribe"
  /\ InsertSegment(h, "", NoEmbedding)
  /\ UNCHANGED <<middleware, taste, startup, poll, tz, now, backfill, textHandler, admin, r2, embeddingModelReady, outcomes, cq, df, vs>>

TranscribeRejects(h) ==
  /\ voice[h].pc = "transcribe"
  /\ ToCatch(h)
  /\ UNCHANGED <<middleware, taste, startup, poll, tz, now, backfill, textHandler, admin, transcripts, r2, embeddingModelReady, outcomes, cq, df, vs>>

\* generateEmbedding resolves (part_000:760-761, 767-778).
EmbedResolves(h) ==
  /\ voice[h].pc = "embed"
  /\ InsertSegment(h, voice[h].transcript, embeddingToBuffer(TranscriptEmbedding))
  /\ UNCHANGED <<middleware, taste, startup, poll, tz, now, backfill, textHandler, admin, r2, embeddingModelReady, outcomes, cq, df, vs>>

\* A handler without the inner try/catch around generateEmbedding: its
\* rejection lands in the outer catch block and nothing is inserted.
EmbedRejectsUncaught(h) ==
  /\ voice[h].pc = "embed"
  /\ voice' = [voice EXCEPT ![h].pc = "react_fail"]
  /\ UNCHANGED <<middleware, taste, startup, poll, tz, now, backfill, textHandler, admin, transcripts, r2, embeddingModelReady, outcomes, cq, df, vs>>

\* generateEmbedding rejects: the inner catch logs it and the row is
\* inserted with a null embedding (part_000:762-764).
EmbedRejects(h) ==
  /\ voice[h].pc = "embed"
  /\ InsertSegment(h, voice[h].transcript, NoEmbedding)
  /\ UNCHANGED <<middleware, taste, startup, poll, tz, now, backfill, textHandler, admin, r2, embeddingModelReady, outcomes, cq, df, vs>>

\* ctx.react('thumbs up') resolves: the handler returns (part_000:778).
ReactOkResolves(h) ==
  /\ voice[h].pc = "react_ok"
  /\ Finish(h, "stored")
  /\ UNCHANGED <<middleware, taste, startup, poll, tz, now, backfill, textHandler, admin, transcripts, r2, embeddingModelReady, cq, df, vs>>

ReactOkRejects(h) ==
  /\ voice[h].pc = "react_ok"
  /\ ToCatch(h)
  /\ UNCHANGED <<middleware, taste, startup, poll, tz, now, backfill, textHandler, admin, transcripts, r2, embeddingModelReady, outcomes, cq, df, vs>>

\* ctx.react('thumbs down') resolves: the handler returns (part_000:781).
ReactFailResolves(h) ==
  /\ voice[h].pc = "react_fail"
  /\ Finish(h, "error")
  /\ UNCHANGED <<middleware, taste, startup, poll, tz, now, backfill, textHandler, admin, transcripts, r2, embeddingModelReady, cq, df, vs>>

\* ctx.react('thumbs down') rejects inside the catch block: the handler's
\* promise rejects.
ReactFailRejects(h) ==
  /\ voice[h].pc = "react_fail"
  /\ voice' = [voice EXCEPT ![h].pc = "done", ![h].outcome = "rejected",
                            ![h].externalFailure = TRUE]
  /\ outcomes' = outcomes \cup {<<voice[h].message_id, "rejected">>}
  /\ UNCHANGED <<middleware, taste, startup, poll, tz, now, backfill, textHandler, admin, transcripts, r2, embeddingModelReady, cq, df, vs>>

(***************************************************************************)
(* classifyQuery (part_000:483-554)                                        *)
(*                                                                         *)
(* The completion's text is a sequence of lexical tokens:                  *)
(*   " "  white space            "x"  any text that is not JSON (prose,    *)
(*   "{" "}"  braces                  a code-fence marker)                 *)
(*   "T:<v>"  the member  "type": "<v>"                                    *)
(*   "S"      the member  "searchTerms": "coffee"                          *)
(* Commas, colons and keys of nested objects are elided: a nested object   *)
(* stands for a member whose value is that object.                         *)
(***************************************************************************)
MaxReplyLen == 4

TypeTokens == {"T:today", "T:semantic", "T:bogus"}
Tokens == {" ", "x", "{", "}", "S"} \cup TypeTokens

\* The member value a type token carries.
TypeOf(tok) ==
  CASE tok = "T:today" -> "today"
    [] tok = "T:semantic" -> "semantic"
    [] tok = "T:bogus" -> "bogus"

Queries == {"tell me about coffee", "what did I say today?"}

Contents == UNION {[1..n -> Tokens] : n \in 0..MaxReplyLen}

\* What aiClient.chat.completions.create can resolve to: a reply without
\* choices, a choice whose content is null, or a choice with text.
Responses ==
  {[choices |-> 0, hasContent |-> FALSE, content |-> <<>>],
   [choices |-> 1, hasContent |-> FALSE, content |-> <<>>]}
    \cup {[choices |-> 1, hasContent |-> TRUE, content |-> c] : c \in Contents}

NoResponse == [choices |-> 0, hasContent |-> FALSE, content |-> <<>>]

\* String.prototype.trim: strips leading and trailing white space.
RECURSIVE TrimLeft(_)
TrimLeft(s) ==
  IF s # <<>> /\ Head(s) = " " THEN TrimLeft(Tail(s)) ELSE s

RECURSIVE TrimRight(_)
TrimRight(s) ==
  IF s # <<>> /\ s[Len(s)] = " " THEN TrimRight(SubSeq(s, 1, Len(s) - 1)) ELSE s

Trim(s) == TrimRight(TrimLeft(s))

\* content.match(/\{[\s\S]*\}/): the regular expression is greedy, so the
\* match runs from the first "{" to the last "}" that follows it; null when
\* there is no such pair.
NoMatch == [found |-> FALSE, text |-> <<>>]

JsonMatch(content) ==
  LET opens == {i \in 1..Len(content) : content[i] = "{"}
  IN IF opens = {} THEN NoMatch
     ELSE LET first == CHOOSE i \in opens : \A j \in opens : i <= j
              closes == {j \in first + 1..Len(content) : content[j] = "}"}
          IN IF closes = {} THEN NoMatch
             ELSE LET last == CHOOSE j \in closes : \A k \in closes : k <= j
                  IN [found |-> TRUE, text |-> SubSeq(content, first, last)]

EmptyObject == [type |-> Undefined, searchTerms |-> Undefined, dateFilter |-> Undefined]

ParseFail == [ok |-> FALSE, next |-> 0, val |-> EmptyObject]

\* The members of an object whose "{" has been read, from position i on;
\* a later duplicate key replaces an earlier one, as in JSON.parse.
RECURSIVE ParseMembers(_, _, _)
ParseMembers(s, i, acc) ==
  IF i > Len(s) THEN ParseFail
  ELSE CASE s[i] = "}" -> [ok |-> TRUE, next |-> i + 1, val |-> acc]
         [] s[i] = " " -> ParseMembers(s, i + 1, acc)
         [] s[i] \in TypeTokens ->
              ParseMembers(s, i + 1, [acc EXCEPT !.type = TypeOf(s[i])])
         [] s[i] = "S" ->
              ParseMembers(s, i + 1, [acc EXCEPT !.searchTerms = "coffee"])
         [] s[i] = "{" ->
              LET inner == ParseMembers(s, i + 1, EmptyObject)
              IN IF inner.ok THEN ParseMembers(s, inner.next, acc) ELSE ParseFail
         [] OTHER -> ParseFail

\* JSON.parse of a text that starts with "{": the object, or a SyntaxError
\* when the text is not one well-formed object.
JsonParse(s) ==
  LET r == ParseMembers(s, 2, EmptyObject)
  IN IF r.ok /\ r.next = Len(s) + 1
       THEN [threw |-> FALSE, value |-> r.val]
       ELSE [threw |-> TRUE, value |-> EmptyObject]

\* The catch block (part_000:549-553).
ClassifyOnError(userQuery) ==
  [threw |-> FALSE,
   value |-> [type |-> "semantic", searchTerms |-> userQuery, dateFilter |-> Null]]

\* ClassifyParse with JSON.parse moved out of the try block: its SyntaxError
\* escapes to the caller.
ClassifyParseUncaught(userQuery, response) ==
  IF response.choices = 0 \/ ~response.hasContent
    THEN ClassifyOnError(userQuery)
    ELSE LET jsonMatch == JsonMatch(Trim(response.content))
         IN IF ~jsonMatch.found
              THEN ClassifyOnError(userQuery)
              ELSE JsonParse(jsonMatch.text)

\* The try block once the completion has resolved (part_000:542-548); every
\* exception in it is caught by the catch block.
ClassifyParse(userQuery, response) ==
  IF response.choices = 0 \/ ~response.hasContent
    THEN ClassifyOnError(userQuery)      \* TypeError: choices[0] / .trim()
    ELSE LET jsonMatch == JsonMatch(Trim(response.content))
         IN IF ~jsonMatch.found
              THEN ClassifyOnError(userQuery)   \* throw new Error(...)
              ELSE LET parsed == JsonParse(jsonMatch.text)
                   IN IF parsed.threw THEN ClassifyOnError(userQuery)
                      ELSE parsed

CqIdle == [pc |-> "idle", query |-> "", outcome |-> "none", response |-> NoResponse,
           result |-> [threw |-> FALSE, value |-> EmptyObject]]

\* classifyQuery is called: the prompt is built and the completion awaited.
ClassifyStart(q) ==
  /\ cq.pc = "idle"
  /\ cq' = [CqIdle EXCEPT !.pc = "awaiting", !.query = q]
  /\ UNCHANGED <<middleware, taste, startup, poll, tz, now, backfill, textHandler, admin, transcripts, r2, embeddingModelReady, voice, outcomes, df, vs>>

\* The completion call rejects (network error, HTTP error, timeout).
CompletionRejects ==
  /\ cq.pc = "awaiting"
  /\ cq' = [cq EXCEPT !.pc = "done", !.outcome = "rejected",
                      !.result = ClassifyOnError(cq.query)]
  /\ UNCHANGED <<middleware, taste, startup, poll, tz, now, backfill, textHandler, admin, transcripts, r2, embeddingModelReady, voice, outcomes, df, vs>>

\* The completion call resolves with a response.
CompletionResolves(response) ==
  /\ cq.pc = "awaiting"
  /\ cq' = [cq EXCEPT !.pc = "done", !.outcome = "resolved",
                      !.response = response,
                      !.result = ClassifyParse(cq.query, response)]
  /\ UNCHANGED <<middleware, taste, startup, poll, tz, now, backfill, textHandler, admin, transcripts, r2, embeddingModelReady, voice, outcomes, df, vs>>

\* The caller has consumed the classification.
ClassifyReturn ==
  /\ cq.pc = "done"
  /\ cq' = CqIdle
  /\ UNCHANGED <<middleware, taste, startup, poll, tz, now, backfill, textHandler, admin, transcripts, r2, embeddingModelReady, voice, outcomes, df, vs>>

InitClassify ==
  /\ tz = 0
  /\ transcripts = <<>>
  /\ r2 = {}
  /\ embeddingModelReady = TRUE
  /\ voice = <<>>
  /\ outcomes = {}
  /\ cq = CqIdle
  /\ df = DfIdle
  /\ vs = VsIdle
  /\ now = 0
  /\ textHandler = TextIdle
  /\ admin = AdminIdle
  /\ backfill = BackfillIdle
  /\ middleware = MiddlewareIdle
  /\ taste = TasteIdle
  /\ startup = StartupIdle
  /\ poll = PollIdle

NextClassify ==
  \/ \E q \in Queries : ClassifyStart(q)
  \/ CompletionRejects
  \/ \E response \in Responses : CompletionResolves(response)
  \/ ClassifyReturn

SpecClassify == InitClassify /\ [][NextClassify]_vars

\* The default classification of the catch block, as the specification
\* states it.
DefaultClassification(q) ==
  [type |-> "semantic", searchTerms |-> q, dateFilter |-> Null]

\* The text holds a "{" with a "}" somewhere after it.
HasBraceSpan(c) ==
  \E i, j \in 1..Len(c) : i < j /\ c[i] = "{" /\ c[j] = "}"

\* The four failures of C1: the call rejects, the reply has no choices (or
\* no text), the text has no {...} substring, the substring is not JSON.
ClassifyFailed ==
  \/ cq.outcome = "rejected"
  \/ /\ cq.outcome = "resolved"
     /\ \/ cq.response.choices = 0
        \/ ~cq.response.hasContent
        \/ ~HasBraceSpan(cq.response.content)
        \/ JsonParse(JsonMatch(Trim(cq.response.content)).text).threw

\* C1: classifyQuery never throws, and whenever the completion call
\* rejects, the reply has no choices, the reply has no {...} substring or
\* the extracted substring is not valid JSON, it returns exactly
\* {type: 'semantic', searchTerms: query, dateFilter: null}.
C1_ClassifyNeverThrows ==
  cq.pc = "done" =>
    /\ ~cq.result.threw
    /\ ClassifyFailed => cq.result.value = DefaultClassification(cq.query)

\* C1 witness: a reply whose {...} substring is not valid JSON has been
\* mapped to the default classification.
C1_Witness ==
  /\ cq.pc = "done"
  /\ cq.outcome = "resolved"
  /\ cq.response.hasContent
  /\ HasBraceSpan(cq.response.content)
  /\ JsonParse(JsonMatch(Trim(cq.response.content)).text).threw
  /\ cq.result.value = DefaultClassification(cq.query)

ClassificationTypes == {"today", "week", "month", "year", "semantic"}

\* C10 (as claimed): classifyQuery never returns an object whose type is
\* missing or outside {today, week, month, year, semantic}; a reply that
\* parses but lacks a valid type yields the default classification.
C10_TypeAlwaysValid ==
  cq.pc = "done" =>
    /\ cq.result.value.type \in ClassificationTypes
    /\ (cq.outcome = "resolved" /\ cq.response.hasContent
          /\ JsonMatch(Trim(cq.response.content)).found
          /\ ~JsonParse(JsonMatch(Trim(cq.response.content)).text).threw
          /\ JsonParse(JsonMatch(Trim(cq.response.content)).text).value.type
               \notin ClassificationTypes)
        => cq.result.value = DefaultClassification(cq.query)

\* The first top-level JSON object of a text: the object that starts at the
\* text's first "{" and ends at the "}" that closes it.
FirstObject(c) ==
  LET opens == {i \in 1..Len(c) : c[i] = "{"}
  IN IF opens = {} THEN ParseFail
     ELSE ParseMembers(c, (CHOOSE i \in opens : \A j \in opens : i <= j) + 1, EmptyObject)

\* C11 (as claimed): when the reply is prose, then a well-formed JSON
\* object, then any further text (braces included), classifyQuery returns
\* that first object.
C11_FirstObjectParsed ==
  (cq.pc = "done" /\ cq.outcome = "resolved" /\ cq.response.hasContent
     /\ FirstObject(cq.response.content).ok)
    => cq.result.value = FirstObject(cq.response.content).val

CqInert == [pc |-> "off", query |-> "", outcome |-> "none", response |-> NoResponse,
            result |-> [threw |-> FALSE, value |-> EmptyObject]]

InitDate ==
  /\ tz \in TzOffsets
  /\ transcripts = <<>>
  /\ r2 = {}
  /\ embeddingModelReady = TRUE
  /\ voice = <<>>
  /\ outcomes = {}
  /\ cq = CqInert
  /\ df = DfIdle
  /\ vs = VsIdle
  /\ now = 0
  /\ textHandler = TextIdle
  /\ admin = AdminIdle
  /\ backfill = BackfillIdle
  /\ middleware = MiddlewareIdle
  /\ taste = TasteIdle
  /\ startup = StartupIdle
  /\ poll = PollIdle

NextDate ==
  \/ \E dateFilter \in DateFilters : ParseDateFilterCall(dateFilter)
  \/ \E rows \in RowLists, dateFilter \in DateFilters : ApplyDateFilterCall(rows, dateFilter)
  \/ DateFilterReturn

SpecDate == InitDate /\ [][NextDate]_vars

\* 00:00:00 of calendar day d in the configured local timezone.
LocalMidnight(d) == d * SecondsPerDay - tz

\* The half-open range [start, end) of the data model; a null end is open.
InRange(range, t) ==
  /\ range.start.k = "num" /\ range.start.v <= t
  /\ range.end.k = "null" \/ (range.end.k = "num" /\ t < range.end.v)

\* The row is among the rows a call returned.
Passes(row, out) == \E j \in 1..Len(out.rows) : out.rows[j].id = row.id

\* C5 (as claimed): the range of an element {date: D} starts at 00:00:00 of
\* day D in the configured local timezone and ends at 00:00:00 of the next
\* local day, whatever the timezone's offset.
C5_SingleDateIsLocalDay ==
  (df.pc = "done" /\ ~df.parsed.threw) =>
    \A i \in 1..Len(df.parsed.ranges) :
      LET r == df.parsed.ranges[i]
      IN (r.form = "date" /\ r.a.k = "day") =>
           /\ r.start = Num(LocalMidnight(r.a.d))
           /\ r.end = Num(LocalMidnight(r.a.d + 1))

\* C6 (as claimed): a range with a finite end is applied half-open: an
\* entry passes it if and only if start <= created_at < end, for all
\* integer values, 0 and negative ones included.
C6_HalfOpenForAllIntegers ==
  (df.pc = "done" /\ df.op = "apply" /\ ~df.out.threw
     /\ Len(df.parsed.ranges) = 1
     /\ df.parsed.ranges[1].start.k = "num" /\ df.parsed.ranges[1].end.k = "num") =>
    \A i \in 1..Len(df.rows) :
      Passes(df.rows[i], df.out)
        <=> /\ df.parsed.ranges[1].start.v <= df.rows[i].created_at
            /\ df.rows[i].created_at < df.parsed.ranges[1].end.v

\* An element the grammar recognises: {date}, {start, end} or {start} with
\* parsable date strings.
WellFormed(filter) ==
  /\ filter.kind = "obj"
  /\ \/ filter.date.k = "day"
     \/ /\ filter.date.k = "absent"
        /\ filter.start.k = "day"
        /\ filter.end.k \in {"day", "absent"}

\* C7 (as claimed): every malformed element is dropped silently: nothing
\* is thrown, the element yields no range, and the list filters exactly as
\* its well-formed elements alone would.
C7_MalformedDropped ==
  (df.pc = "done" /\ df.dateFilter.k = "array") =>
    LET valid == SelectSeq(df.dateFilter.items, WellFormed)
    IN /\ ~df.parsed.threw
       /\ Len(df.parsed.ranges) = Len(valid)
       /\ df.op = "apply" =>
            /\ ~df.out.threw
            /\ df.out.rows = applyDateFilter(df.rows, ListFilter(valid)).rows

\* C9 (as claimed): with several ranges an entry passes if and only if its
\* created_at falls in at least one of them.
C9_OrSemantics ==
  (df.pc = "done" /\ df.op = "apply" /\ ~df.out.threw
     /\ Len(df.parsed.ranges) >= 2
     /\ \A i \in 1..Len(df.parsed.ranges) :
          df.parsed.ranges[i].start.k = "num" /\ df.parsed.ranges[i].end.k # "NaN") =>
    \A i \in 1..Len(df.rows) :
      Passes(df.rows[i], df.out)
        <=> \E j \in 1..Len(df.parsed.ranges) :
              InRange(df.parsed.ranges[j], df.rows[i].created_at)

(***************************************************************************)
(* PUT /api/voice-journal/messages/:id of the admin server                 *)
(* (admin-server.js:732-771): the transcript of a row is replaced and its  *)
(* embedding regenerated.                                                  *)
(***************************************************************************)
\* The transcript member of a request body: missing or not a string, or a
\* string given as its pieces (" " is white space).
AdminBodies ==
  {[isString |-> FALSE, text |-> <<>>]}
    \cup {[isString |-> TRUE, text |-> t] : t \in {<<>>, <<" ", " ">>, <<" ", "tea", " ">>, <<"milk">>}}

MaxAdminRows == 2

\* Requests the admin server takes in one run.
MaxRequests == 2

\* The ids a request can name: the rows that can exist and one that cannot.
AdminIds == 1..(MaxAdminRows + 1)

\* The stores a request can meet: rows as the voice handler stores them,
\* with or without an embedding; the first row's audio is archived, the
\* second row's upload had failed.
AdminStores ==
  UNION {{[i \in 1..n |->
             TranscriptRow(i, i, "f",
                           IF i = 1 THEN R2Key(Jan15_2026 * SecondsPerDay + 28800, i)
                                    ELSE NoKey,
                           "buy coffee",
                           Jan15_2026 * SecondsPerDay + 28800, e[i])] :
            e \in [1..n -> {NoEmbedding, embeddingToBuffer(TranscriptEmbedding)}]} :
         n \in 0..MaxAdminRows}

\* The archived objects of a store.
ArchivedKeys(rows) ==
  {rows[i].r2_key : i \in {j \in 1..Len(rows) : ~rows[j].r2_key.isNull}}

\* What embed resolves to for an edited transcript.
EditedEmbedding == <<0, 1>>

\* embed(text) (the embeddings module, called at admin-server.js:752 and
\* through generateEmbedding at telegram-helpers.js:177-183): the vector is
\* a function of the text.
EmbeddingOf(text) ==
  CASE text = "buy coffee" -> TranscriptEmbedding
    [] text = "tea" -> EditedEmbedding
    [] text = "milk" -> <<1, 1>>
    [] OTHER -> <<0, 0>>

\* The pieces of a string put together.
RECURSIVE JoinText(_)
JoinText(t) == IF t = <<>> THEN "" ELSE Head(t) \o JoinText(Tail(t))

\* The admin server before any request, with or without OPENROUTER_API_KEY
\* in its environment; reqs holds the requests taken so far, each one
\* suspended at an await or answered.
AdminStart(apiKey) == [apiKey |-> apiKey, reqs |-> <<>>]

Requests == 1..Len(admin.reqs)

Request(kind, pc, id, transcript, key, status) ==
  [kind |-> kind, pc |-> pc, id |-> id, transcript |-> transcript, key |-> key,
   status |-> status]

\* Some row has this id.
HasId(rows, id) == \E i \in 1..Len(rows) : rows[i].id = id

\* UPDATE transcripts SET transcript = ? WHERE id = ?
UpdateTranscript(rows, id, transcript) ==
  [i \in 1..Len(rows) |->
     IF rows[i].id = id THEN [rows[i] EXCEPT !.transcript = transcript] ELSE rows[i]]

\* UPDATE transcripts SET embedding = ? WHERE id = ?
UpdateEmbedding(rows, id, embeddingBuffer) ==
  [i \in 1..Len(rows) |->
     IF rows[i].id = id THEN [rows[i] EXCEPT !.embedding = embeddingBuffer] ELSE rows[i]]

\* DELETE FROM transcripts WHERE id = ?
DeleteRow(rows, id) == SelectSeq(rows, LAMBDA row : row.id # id)

\* A PUT request arrives (admin-server.js:733-752): 400 for a missing, empty
\* or non-string transcript, 404 when no row has the id; otherwise the
\* trimmed text is stored and, with OPENROUTER_API_KEY set, embed awaited.
AdminPut(id, body) ==
  /\ Len(admin.reqs) < MaxRequests
  /\ LET text == JoinText(Trim(body.text))
         req(pc, status) == Request("put", pc, id, text, NoKey, status)
     IN IF ~body.isString \/ body.text = <<>>
          THEN /\ admin' = [admin EXCEPT !.reqs = Append(@, req("done", 400))]
               /\ UNCHANGED transcripts
        ELSE IF ~HasId(transcripts, id)
          THEN /\ admin' = [admin EXCEPT !.reqs = Append(@, req("done", 404))]
               /\ UNCHANGED transcripts
        ELSE /\ transcripts' = UpdateTranscript(transcripts, id, text)
             /\ admin' = [admin EXCEPT !.reqs =
                            Append(@, IF admin.apiKey THEN req("embed", 0)
                                                      ELSE req("done", 200))]
  /\ UNCHANGED <<middleware, taste, startup, poll, tz, now, backfill, textHandler, r2, embeddingModelReady, voice, outcomes, cq, df, vs>>

\* embed resolves: the row's embedding is replaced (admin-server.js:752-757).
AdminEmbedResolves(r) ==
  /\ admin.reqs[r].pc = "embed"
  /\ transcripts' = UpdateEmbedding(transcripts, admin.reqs[r].id,
                                    embeddingToBuffer(EmbeddingOf(admin.reqs[r].transcript)))
  /\ admin' = [admin EXCEPT !.reqs[r].pc = "done", !.reqs[r].status = 200]
  /\ UNCHANGED <<middleware, taste, startup, poll, tz, now, backfill, textHandler, r2, embeddingModelReady, voice, outcomes, cq, df, vs>>

\* embed rejects: logged, the request still succeeds (admin-server.js:760-763).
AdminEmbedRejects(r) ==
  /\ admin.reqs[r].pc = "embed"
  /\ admin' = [admin EXCEPT !.reqs[r].pc = "done", !.reqs[r].status = 200]
  /\ UNCHANGED <<middleware, taste, startup, poll, tz, now, backfill, textHandler, transcripts, r2, embeddingModelReady, voice, outcomes, cq, df, vs>>

\* A DELETE request arrives (admin-server.js:774-803): 404 when no row has
\* the id; otherwise the row is deleted and, when it has an r2_key, the
\* DeleteObjectCommand is to be sent.  The module's r2Client was assigned
\* from getR2Client() when the module was loaded (admin-server.js:23), which
\* is before the main module calls initializeR2Client, so it is null:
\* r2Client.send throws a TypeError inside the try block, which is caught
\* and logged, and the request answers success without an await.
AdminDelete(id) ==
  /\ Len(admin.reqs) < MaxRequests
  /\ IF ~HasId(transcripts, id)
       THEN /\ admin' = [admin EXCEPT !.reqs =
                           Append(@, Request("delete", "done", id, "", NoKey, 404))]
            /\ UNCHANGED transcripts
       ELSE LET message == transcripts[CHOOSE i \in 1..Len(transcripts) :
                                         transcripts[i].id = id]
            IN /\ transcripts' = DeleteRow(transcripts, id)
               /\ admin' = [admin EXCEPT !.reqs =
                              Append(@, Request("delete", "done", id, "", message.r2_key, 200))]
  /\ UNCHANGED <<middleware, taste, startup, poll, tz, now, backfill, textHandler, r2, embeddingModelReady, voice, outcomes, cq, df, vs>>

(***************************************************************************)
(* backfillEmbeddings (telegram-helpers.js:239-276), started by the bot    *)
(* once the embedding model is initialised (part_000:469-474).             *)
(***************************************************************************)
\* SELECT id, transcript FROM transcripts WHERE embedding IS NULL
RECURSIVE RecordsWithoutEmbeddings(_)
RecordsWithoutEmbeddings(rows) ==
  IF rows = <<>> THEN <<>>
  ELSE (IF Head(rows).embedding.isNull
          THEN <<[id |-> Head(rows).id, transcript |-> Head(rows).transcript]>>
          ELSE <<>>) \o RecordsWithoutEmbeddings(Tail(rows))

\* The loop goes on to the next record, or the function returns.
BackfillNext(successCount) ==
  [pc |-> IF Len(backfill.records) > 1 THEN "embed" ELSE "done",
   records |-> Tail(backfill.records), successCount |-> successCount]

\* The call up to the first await (telegram-helpers.js:240-265): nothing to
\* do when the model is not ready or no row lacks an embedding; otherwise
\* the rows read by the SELECT are kept and generateEmbedding awaited for
\* the first.
BackfillStart ==
  /\ backfill.pc = "idle"
  /\ LET recordsWithoutEmbeddings == RecordsWithoutEmbeddings(transcripts)
     IN backfill' = IF ~embeddingModelReady \/ recordsWithoutEmbeddings = <<>>
                      THEN [backfill EXCEPT !.pc = "done"]
                      ELSE [pc |-> "embed", records |-> recordsWithoutEmbeddings,
                            successCount |-> 0]
  /\ UNCHANGED <<middleware, taste, startup, poll, tz, now, admin, textHandler, transcripts, r2, embeddingModelReady, voice, outcomes, cq, df, vs>>

\* generateEmbedding resolves for the text read by the SELECT: the row with
\* the record's id gets the embedding (telegram-helpers.js:263-267).
BackfillEmbedResolves ==
  /\ backfill.pc = "embed"
  /\ transcripts' = UpdateEmbedding(transcripts, Head(backfill.records).id,
                      embeddingToBuffer(EmbeddingOf(Head(backfill.records).transcript)))
  /\ backfill' = BackfillNext(backfill.successCount + 1)
  /\ UNCHANGED <<middleware, taste, startup, poll, tz, now, admin, textHandler, r2, embeddingModelReady, voice, outcomes, cq, df, vs>>

\* It rejects: logged, the loop goes on (telegram-helpers.js:268-270).
BackfillEmbedRejects ==
  /\ backfill.pc = "embed"
  /\ backfill' = BackfillNext(backfill.successCount)
  /\ UNCHANGED <<middleware, taste, startup, poll, tz, now, admin, textHandler, transcripts, r2, embeddingModelReady, voice, outcomes, cq, df, vs>>

InitAdmin ==
  /\ tz = 0
  /\ now = 0
  /\ transcripts \in AdminStores
  /\ r2 = ArchivedKeys(transcripts)
  /\ embeddingModelReady = TRUE
  /\ voice = <<>>
  /\ outcomes = {}
  /\ cq = CqInert
  /\ df = DfIdle
  /\ vs = VsIdle
  /\ textHandler = TextIdle
  /\ backfill = BackfillIdle
  /\ middleware = MiddlewareIdle
  /\ taste = TasteIdle
  /\ startup = StartupIdle
  /\ poll = PollIdle
  /\ admin \in {AdminStart(apiKey) : apiKey \in BOOLEAN}

NextAdmin ==
  \/ \E id \in AdminIds, body \in AdminBodies : AdminPut(id, body)
  \/ \E r \in Requests : AdminEmbedResolves(r)
  \/ \E r \in Requests : AdminEmbedRejects(r)
  \/ \E id \in AdminIds : AdminDelete(id)
  \/ BackfillStart
  \/ BackfillEmbedResolves
  \/ BackfillEmbedRejects

SpecAdmin == InitAdmin /\ [][NextAdmin]_vars

InitVoice ==
  /\ tz = 0
  /\ transcripts = <<>>
  /\ r2 = {}
  /\ embeddingModelReady \in BOOLEAN
  /\ voice = <<>>
  /\ outcomes = {}
  /\ cq = CqInert
  /\ df = DfIdle
  /\ vs = VsIdle
  /\ now = 0
  /\ textHandler = TextIdle
  /\ admin = AdminIdle
  /\ backfill = BackfillIdle
  /\ middleware = MiddlewareIdle
  /\ taste = TasteIdle
  /\ startup = StartupIdle
  /\ poll = PollIdle

NextVoice ==
  \/ \E update \in VoiceUpdates : VoiceDelivered(update)
  \/ \E h \in Handlers : ReactEyesResolves(h)
  \/ \E h \in Handlers : ReactEyesRejects(h)
  \/ \E h \in Handlers : ReactDupResolves(h)
  \/ \E h \in Handlers : ReactDupRejects(h)
  \/ \E h \in Handlers : DownloadResolves(h)
  \/ \E h \in Handlers : DownloadRejects(h)
  \/ \E h \in Handlers, ok \in BOOLEAN : UploadResolves(h, ok)
  \/ \E h \in Handlers, transcript \in Transcriptions : TranscribeResolves(h, transcript)
  \/ \E h \in Handlers : TranscribeRejects(h)
  \/ \E h \in Handlers : EmbedResolves(h)
  \/ \E h \in Handlers : EmbedRejects(h)
  \/ \E h \in Handlers : ReactOkResolves(h)
  \/ \E h \in Handlers : ReactOkRejects(h)
  \/ \E h \in Handlers : ReactFailResolves(h)
  \/ \E h \in Handlers : ReactFailRejects(h)

SpecVoice == InitVoice /\ [][NextVoice]_vars

RowsOfMessage(messageId) ==
  {i \in 1..Len(transcripts) : transcripts[i].message_id = messageId}

\* C2: the store never holds two entries with the same message_id, and a
\* message one of whose handlings ended in success (the row inserted and the
\* success reaction sent) has exactly one entry, however many times it was
\* delivered.
C2_OneEntryPerMessage ==
  /\ \A update \in VoiceUpdates : Cardinality(RowsOfMessage(update.message_id)) <= 1
  /\ \A o \in outcomes : o[2] = "stored" => Cardinality(RowsOfMessage(o[1])) = 1

\* A message delivered twice, both handlings finished, one of them with
\* success, and one entry stored for it.
C2_Witness ==
  \E h \in Handlers, g \in Handlers :
    /\ h # g
    /\ voice[h].message_id = voice[g].message_id
    /\ voice[h].pc = "done" /\ voice[g].pc = "done"
    /\ voice[h].outcome = "stored"
    /\ Cardinality(RowsOfMessage(voice[h].message_id)) = 1

\* C3: a handling of a message that was already stored, or whose first
\* handling was between its duplicate check and its insert, when it was
\* delivered, does not end in an error unless one of its own external calls
\* failed; and when the message was already stored it uploads and stores
\* nothing.
C3_RedeliveryIsNoOp ==
  \A h \in Handlers :
    (voice[h].again /\ voice[h].pc = "done" /\ ~voice[h].externalFailure) =>
      /\ voice[h].outcome \notin {"error", "rejected"}
      /\ voice[h].storedAtDelivery => (~voice[h].uploaded /\ ~voice[h].inserted)


InitSearch ==
  /\ tz = 0
  /\ transcripts \in Stores
  /\ r2 = {}
  /\ embeddingModelReady \in BOOLEAN
  /\ voice = <<>>
  /\ outcomes = {}
  /\ cq = CqInert
  /\ df = DfIdle
  /\ vs = VsIdle
  /\ now = 0
  /\ textHandler = TextIdle
  /\ admin = AdminIdle
  /\ backfill = BackfillIdle
  /\ middleware = MiddlewareIdle
  /\ taste = TasteIdle
  /\ startup = StartupIdle
  /\ poll = PollIdle

NextSearch ==
  \/ \E topK \in TopKs, dateFilter \in SearchFilters :
       VectorSearchStart("coffee", topK, dateFilter)
  \/ QueryEmbeddingRejects
  \/ \E queryEmbedding \in QueryEmbeddings : QueryEmbeddingResolves(queryEmbedding)
  \/ VectorSearchReturn

SpecSearch == InitSearch /\ [][NextSearch]_vars

\* The entries vectorSearch has to rank: embedded, and passing the filter.
Candidates ==
  IF vs.dateFilter.k = "null" THEN EmbeddedRows(transcripts)
  ELSE applyDateFilter(EmbeddedRows(transcripts), vs.dateFilter).rows

\* x > y for two scores; false when either is NaN.
StrictlyHigher(x, y) == x.k = "num" /\ y.k = "num" /\ SimLess(y, x)

Min(a, b) == IF a < b THEN a ELSE b

\* C4 (as claimed): vectorSearch returns min(topK, n) of the n embedded
\* entries that pass the filter, in non-increasing score order, and no
\* omitted entry has a strictly higher score than a returned one.
C4_TopKByScore ==
  (vs.pc = "done" /\ vs.error = "none") =>
    LET res == vs.results
        returned == {res[i].row.id : i \in 1..Len(res)}
    IN /\ Len(res) = Min(vs.topK, Len(Candidates))
       /\ Cardinality(returned) = Len(res)
       /\ \A i \in 1..Len(res) : \E j \in 1..Len(Candidates) : Candidates[j] = res[i].row
       /\ \A i, j \in 1..Len(res) :
            i < j => ~StrictlyHigher(res[j].similarity, res[i].similarity)
       /\ \A j \in 1..Len(Candidates) :
            Candidates[j].id \notin returned =>
              \A i \in 1..Len(res) :
                ~StrictlyHigher(
                   cosineSimilarity(vs.queryEmbedding,
                                    bufferToEmbedding(Candidates[j].embedding)),
                   res[i].similarity)

\* The filter is absent, is not a list, is empty or holds no well-formed
\* element.
NoUsableRange(dateFilter) ==
  \/ dateFilter.k # "array"
  \/ \A i \in 1..Len(dateFilter.items) : ~WellFormed(dateFilter.items[i])

\* C8 (as claimed): when the filter is absent, not a list, empty or yields
\* no usable range, parseDateFilter returns 'no filter' and vectorSearch
\* scores every embedded entry, raising no error.
C8_NoFilterMatchesEverything ==
  (vs.pc = "done" /\ vs.error \notin {"not initialized", "embedding failed"}
     /\ NoUsableRange(vs.dateFilter)) =>
    /\ vs.error = "none"
    /\ ~parseDateFilter(vs.dateFilter).threw
    /\ parseDateFilter(vs.dateFilter).isNull
    /\ Len(vs.results) = Min(vs.topK, Len(EmbeddedRows(transcripts)))

(***************************************************************************)
(* The period fetches (part_000:556-592).                                  *)
(*                                                                         *)
(* Local time is UTC + tz with a fixed offset (no daylight-saving change   *)
(* inside a run).  Days are counted from 1 January 1970; the calendar is   *)
(* spelled out for December 2025 to February 2026.                         *)
(***************************************************************************)
Jan1_2025 == 20089
Dec1_2025 == 20423
Jan1_2026 == 20454
Jan14_2026 == 20467
Feb1_2026 == 20485
Feb10_2026 == 20494

\* The local calendar day of a timestamp, and Date.prototype.getDay of it
\* (0 = Sunday; 1 January 1970 was a Thursday).
LocalDay(t) == (t + tz) \div SecondsPerDay
DayOfWeek(d) == (d + 4) % 7

\* new Date(year, month, 1) and new Date(year, 0, 1) of a day.
MonthStart(d) ==
  IF d >= Feb1_2026 THEN Feb1_2026 ELSE IF d >= Jan1_2026 THEN Jan1_2026 ELSE Dec1_2025
YearStart(d) == IF d >= Jan1_2026 THEN Jan1_2026 ELSE Jan1_2025

\* ORDER BY created_at DESC; rows with equal created_at stay in rowid order.
RECURSIVE OrderByCreatedAtDesc(_)
OrderByCreatedAtDesc(rows) ==
  IF rows = <<>> THEN <<>>
  ELSE LET rest == OrderByCreatedAtDesc(Tail(rows))
           before == SelectSeq(rest, LAMBDA r : r.created_at > Head(rows).created_at)
           after == SelectSeq(rest, LAMBDA r : r.created_at <= Head(rows).created_at)
       IN before \o <<Head(rows)>> \o after

\* The same query with the strict comparison created_at > ?.
TranscriptsAfter(start) ==
  OrderByCreatedAtDesc(SelectSeq(transcripts, LAMBDA r : r.created_at > start))

\* SELECT * FROM transcripts WHERE created_at >= ? ORDER BY created_at DESC
TranscriptsSince(start) ==
  OrderByCreatedAtDesc(SelectSeq(transcripts, LAMBDA r : r.created_at >= start))

getTranscriptsToday == TranscriptsSince(LocalMidnight(LocalDay(now)))

getTranscriptsThisWeek ==
  TranscriptsSince(LocalMidnight(LocalDay(now) - DayOfWeek(LocalDay(now))))

getTranscriptsThisMonth == TranscriptsSince(LocalMidnight(MonthStart(LocalDay(now))))

getTranscriptsThisYear == TranscriptsSince(LocalMidnight(YearStart(LocalDay(now))))

(***************************************************************************)
(* generateResponse (part_000:688-725).                                    *)
(*                                                                         *)
(* Dates are formatted in America/Los_Angeles, taken at its standard       *)
(* offset.  A formatted date is the record of the fields it prints.        *)
(***************************************************************************)
LosAngelesOffset == -28800

\* formatDuration (telegram-helpers.js:68-77): "1m 3s" or "55s".
formatDuration(seconds) ==
  IF seconds \div 60 > 0
    THEN [minutes |-> seconds \div 60, seconds |-> seconds % 60, form |-> "m s"]
    ELSE [minutes |-> 0, seconds |-> seconds % 60, form |-> "s"]

\* toLocaleDateString / toLocaleTimeString (hour and minute) / toLocaleString
\* of created_at * 1000 in America/Los_Angeles.
ToLocaleDateString(t) == (t + LosAngelesOffset) \div SecondsPerDay
ToLocaleTimeString(t) == ((t + LosAngelesOffset) % SecondsPerDay) \div 60
ToLocaleString(t) ==
  [date |-> ToLocaleDateString(t), second |-> (t + LosAngelesOffset) % SecondsPerDay]

\* The context block of the prompt: "[i] date (duration):\n transcript".
ContextBlock(relevantTranscripts) ==
  [i \in 1..Len(relevantTranscripts) |->
     [index |-> i,
      date |-> ToLocaleString(relevantTranscripts[i].created_at),
      duration |-> formatDuration(relevantTranscripts[i].duration),
      transcript |-> relevantTranscripts[i].transcript]]

\* The sources list with every line numbered from 0.
SourcesListFromZero(relevantTranscripts) ==
  [i \in 1..Len(relevantTranscripts) |->
     [index |-> i - 1,
      date |-> ToLocaleDateString(relevantTranscripts[i].created_at),
      time |-> ToLocaleTimeString(relevantTranscripts[i].created_at),
      duration |-> formatDuration(relevantTranscripts[i].duration)]]

\* The sources list: "i. date at time (duration)".
SourcesList(relevantTranscripts) ==
  [i \in 1..Len(relevantTranscripts) |->
     [index |-> i,
      date |-> ToLocaleDateString(relevantTranscripts[i].created_at),
      time |-> ToLocaleTimeString(relevantTranscripts[i].created_at),
      duration |-> formatDuration(relevantTranscripts[i].duration)]]

\* What the completion of generateResponse can resolve to: a reply without
\* choices, a choice whose content is null, or a choice with text (which may
\* itself hold a sources section).
AnswerTexts == {"You mentioned coffee.", "Sources (9): none"}
Completions ==
  {[choices |-> 0, content |-> Null], [choices |-> 1, content |-> Null]}
    \cup {[choices |-> 1, content |-> a] : a \in AnswerTexts}

\* The returned text: llmResponse, the separator, the header "Sources (n):"
\* and the sources list (part_000:711-720).  Reading choices[0].message of a
\* reply without choices throws; a null content prints as "null".
ComposeResponse(completion, relevantTranscripts) ==
  IF completion.choices = 0
    THEN [threw |-> TRUE, llmResponse |-> Null, header |-> 0, sourcesList |-> <<>>]
    ELSE [threw |-> FALSE, llmResponse |-> completion.content,
          header |-> Len(relevantTranscripts),
          sourcesList |-> SourcesList(relevantTranscripts)]

(***************************************************************************)
(* bot.on('text') (part_000:786-866).                                      *)
(*                                                                         *)
(* textHandler.pc names the await the handler is suspended at; sent lists  *)
(* the messages whose ctx.reply resolved, composed the relevantTranscripts *)
(* of each generateResponse call.                                          *)
(***************************************************************************)
MaxTextRows == 2

UserQueries == {"what did I say today?", "/start"}

\* ctx.message.text.startsWith('/')
IsCommand(q) == q = "/start"

PeriodTypes == {"today", "week", "month", "year"}

\* What classifyQuery can return (it never throws): the object the reply
\* held, whatever its members.  A period type comes without the members the
\* handler does not read for it.
Classifications ==
  {[type |-> t, searchTerms |-> Undefined, dateFilter |-> NoFilter] : t \in PeriodTypes}
    \cup {[type |-> t, searchTerms |-> st, dateFilter |-> f] :
            t \in {"semantic", Undefined},
            st \in {Undefined, "", "coffee"},
            f \in {NoFilter, ListFilter(<<NullElem>>),
                   ListFilter(<<Obj(Day(Jan15_2026), Absent, Absent)>>)}}

NoClassification == [type |-> Undefined, searchTerms |-> Undefined, dateFilter |-> NoFilter]

\* The clock values and the stores a query can meet.
Nows == {Jan15_2026 * SecondsPerDay + 43200, Feb10_2026 * SecondsPerDay + 7200}

TextCreatedAts ==
  {Jan1_2025 * SecondsPerDay + 43200,
   Jan14_2026 * SecondsPerDay + 61200,
   Jan15_2026 * SecondsPerDay,
   Jan15_2026 * SecondsPerDay + 61200,
   Feb1_2026 * SecondsPerDay + 43200,
   (Feb10_2026 - 1) * SecondsPerDay + 43200}

\* A store with more embedded entries than a search returns.
ManyRows == 6

ManyStore ==
  [i \in 1..ManyRows |->
     TranscriptRow(i, i, "f", NoKey, "text", Jan15_2026 * SecondsPerDay + 61200 + i,
                   embeddingToBuffer(IF i % 2 = 0 THEN <<1, 0>> ELSE <<1, 1>>))]

TextStores ==
  {ManyStore} \cup
  UNION {{[i \in 1..n |->
             [TranscriptRow(i, i, "f", NoKey, "text", c[i], e[i])
                EXCEPT !.duration = IF i = 1 THEN 55 ELSE 63]] :
            c \in [1..n -> TextCreatedAts],
            e \in [1..n -> {NoEmbedding, embeddingToBuffer(<<1, 0>>)}]} :
         n \in 0..MaxTextRows}

TextStart(q) ==
  [pc |-> "idle", userQuery |-> q, classified |-> FALSE,
   classification |-> NoClassification,
   searchTerms |-> "", searched |-> FALSE, retrieved |-> FALSE,
   relevantTranscripts |-> <<>>, composed |-> <<>>,
   response |-> [threw |-> FALSE, llmResponse |-> Null, header |-> 0, sourcesList |-> <<>>],
   failure |-> "none", sent |-> <<>>]

\* An exception inside the try block: the catch block awaits the reply of
\* the error message (part_000:858-864).
TextCatch(failure) ==
  textHandler' = [textHandler EXCEPT !.pc = "reply_error", !.failure = failure]

\* A ctx.reply resolved: the message reached the user.
Sent(kind) == Append(textHandler.sent, kind)

\* A text update arrives (part_000:786-799): commands are skipped; while
\* the embedding model is not ready the warning is sent, whatever the query.
TextReceived(q) ==
  /\ textHandler.pc = "idle"
  /\ textHandler' =
       [TextStart(q) EXCEPT !.pc = IF IsCommand(q) THEN "done"
                                   ELSE IF ~embeddingModelReady THEN "reply_initializing"
                                   ELSE "classify"]
  /\ UNCHANGED <<middleware, taste, startup, poll, tz, now, backfill, admin, transcripts, r2, embeddingModelReady, voice, outcomes, cq, df, vs>>

ReplyInitializingResolves ==
  /\ textHandler.pc = "reply_initializing"
  /\ textHandler' = [textHandler EXCEPT !.pc = "done", !.sent = Sent("initializing")]
  /\ UNCHANGED <<middleware, taste, startup, poll, tz, now, backfill, admin, transcripts, r2, embeddingModelReady, voice, outcomes, cq, df, vs>>

ReplyInitializingRejects ==
  /\ textHandler.pc = "reply_initializing"
  /\ TextCatch("reply")
  /\ UNCHANGED <<middleware, taste, startup, poll, tz, now, backfill, admin, transcripts, r2, embeddingModelReady, voice, outcomes, cq, df, vs>>

\* The raw query, whatever the classification's searchTerms.
RawQueryOf(classification, userQuery) == userQuery

\* `classification.searchTerms || userQuery` (part_000:807, 844).
SearchTermsOf(classification, userQuery) ==
  IF classification.searchTerms \in {Undefined, ""} THEN userQuery
  ELSE classification.searchTerms

\* Building the search description (part_000:805-826) throws when
\* parseDateFilter does.
DescriptionThrows(classification) ==
  /\ classification.type = "semantic"
  /\ classification.dateFilter.k # "null"
  /\ parseDateFilter(classification.dateFilter).threw

\* classifyQuery resolves: the description is built and its reply awaited.
ClassifyResolves(classification) ==
  /\ textHandler.pc = "classify"
  /\ IF DescriptionThrows(classification)
       THEN textHandler' = [textHandler EXCEPT !.pc = "reply_error",
                                               !.classified = TRUE,
                                               !.classification = classification,
                                               !.failure = "description"]
       ELSE textHandler' = [textHandler EXCEPT !.pc = "reply_search",
                                               !.classified = TRUE,
                                               !.classification = classification]
  /\ UNCHANGED <<middleware, taste, startup, poll, tz, now, backfill, admin, transcripts, r2, embeddingModelReady, voice, outcomes, cq, df, vs>>

\* The period branch of the retrieval (part_000:834-841).
PeriodFetch(type) ==
  CASE type = "today" -> getTranscriptsToday
    [] type = "week" -> getTranscriptsThisWeek
    [] type = "month" -> getTranscriptsThisMonth
    [] type = "year" -> getTranscriptsThisYear

\* The retrieval followed by generateResponse at once, without the test for
\* an empty result.
ComposeAlways(handler, rows) ==
  [handler EXCEPT !.pc = "generate", !.retrieved = TRUE, !.relevantTranscripts = rows,
                  !.composed = Append(handler.composed, rows)]

\* After the retrieval (part_000:848-854): with no entry the 'no results'
\* reply is awaited, otherwise generateResponse is called and its
\* completion awaited.
AfterRetrieval(handler, rows) ==
  IF Len(rows) = 0
    THEN [handler EXCEPT !.pc = "reply_none", !.retrieved = TRUE,
                         !.relevantTranscripts = rows]
    ELSE [handler EXCEPT !.pc = "generate", !.retrieved = TRUE,
                         !.relevantTranscripts = rows,
                         !.composed = Append(handler.composed, rows)]

\* The reply of the search description resolves: the retrieval starts
\* (part_000:829-846).  A period type is fetched at once; any other type
\* calls vectorSearch(searchTerms, 5, classification.dateFilter), which
\* checks the model and awaits generateEmbedding.
ReplySearchResolves ==
  /\ textHandler.pc = "reply_search"
  /\ LET handler == [textHandler EXCEPT !.sent = Sent("search")]
         classification == textHandler.classification
     IN textHandler' =
          IF classification.type \in PeriodTypes
            THEN AfterRetrieval(handler, PeriodFetch(classification.type))
          ELSE IF ~embeddingModelReady
            THEN [handler EXCEPT !.pc = "reply_error", !.failure = "not initialized"]
          ELSE [handler EXCEPT !.pc = "embed", !.searched = TRUE,
                               !.searchTerms =
                                  SearchTermsOf(classification, textHandler.userQuery)]
  /\ UNCHANGED <<middleware, taste, startup, poll, tz, now, backfill, admin, transcripts, r2, embeddingModelReady, voice, outcomes, cq, df, vs>>

ReplySearchRejects ==
  /\ textHandler.pc = "reply_search"
  /\ TextCatch("reply")
  /\ UNCHANGED <<middleware, taste, startup, poll, tz, now, backfill, admin, transcripts, r2, embeddingModelReady, voice, outcomes, cq, df, vs>>

\* The rows of a vectorSearch result ({...transcript, similarity}).
RowsOf(results) == [i \in 1..Len(results) |-> results[i].row]

\* generateEmbedding resolves inside vectorSearch: filter, score, sort and
\* slice (part_000:667-684); a TypeError of the filter reaches the catch.
TextEmbedResolves(queryEmbedding) ==
  /\ textHandler.pc = "embed"
  /\ LET out == SearchRows(queryEmbedding, DefaultTopK,
                           textHandler.classification.dateFilter, transcripts)
     IN textHandler' =
          IF out.threw
            THEN [textHandler EXCEPT !.pc = "reply_error", !.failure = "TypeError"]
            ELSE AfterRetrieval(textHandler, RowsOf(out.results))
  /\ UNCHANGED <<middleware, taste, startup, poll, tz, now, backfill, admin, transcripts, r2, embeddingModelReady, voice, outcomes, cq, df, vs>>

TextEmbedRejects ==
  /\ textHandler.pc = "embed"
  /\ TextCatch("embedding")
  /\ UNCHANGED <<middleware, taste, startup, poll, tz, now, backfill, admin, transcripts, r2, embeddingModelReady, voice, outcomes, cq, df, vs>>

ReplyNoneResolves ==
  /\ textHandler.pc = "reply_none"
  /\ textHandler' = [textHandler EXCEPT !.pc = "done", !.sent = Sent("no results")]
  /\ UNCHANGED <<middleware, taste, startup, poll, tz, now, backfill, admin, transcripts, r2, embeddingModelReady, voice, outcomes, cq, df, vs>>

ReplyNoneRejects ==
  /\ textHandler.pc = "reply_none"
  /\ TextCatch("reply")
  /\ UNCHANGED <<middleware, taste, startup, poll, tz, now, backfill, admin, transcripts, r2, embeddingModelReady, voice, outcomes, cq, df, vs>>

\* The completion of generateResponse resolves: the answer and its sources
\* section are returned and the reply awaited, or reading the reply throws
\* and generateResponse rethrows (part_000:711-724).
GenerateResolves(completion) ==
  /\ textHandler.pc = "generate"
  /\ LET response == ComposeResponse(completion, textHandler.relevantTranscripts)
     IN textHandler' =
          IF response.threw
            THEN [textHandler EXCEPT !.pc = "reply_error", !.failure = "compose"]
            ELSE [textHandler EXCEPT !.pc = "reply_answer", !.response = response]
  /\ UNCHANGED <<middleware, taste, startup, poll, tz, now, backfill, admin, transcripts, r2, embeddingModelReady, voice, outcomes, cq, df, vs>>

GenerateRejects ==
  /\ textHandler.pc = "generate"
  /\ TextCatch("compose")
  /\ UNCHANGED <<middleware, taste, startup, poll, tz, now, backfill, admin, transcripts, r2, embeddingModelReady, voice, outcomes, cq, df, vs>>

ReplyAnswerResolves ==
  /\ textHandler.pc = "reply_answer"
  /\ textHandler' = [textHandler EXCEPT !.pc = "done", !.sent = Sent("answer")]
  /\ UNCHANGED <<middleware, taste, startup, poll, tz, now, backfill, admin, transcripts, r2, embeddingModelReady, voice, outcomes, cq, df, vs>>

ReplyAnswerRejects ==
  /\ textHandler.pc = "reply_answer"
  /\ TextCatch("reply")
  /\ UNCHANGED <<middleware, taste, startup, poll, tz, now, backfill, admin, transcripts, r2, embeddingModelReady, voice, outcomes, cq, df, vs>>

\* The reply of the error message resolves, or rejects and is only logged
\* (part_000:860-864): the handler returns.
ReplyErrorResolves ==
  /\ textHandler.pc = "reply_error"
  /\ textHandler' = [textHandler EXCEPT !.pc = "done", !.sent = Sent("error")]
  /\ UNCHANGED <<middleware, taste, startup, poll, tz, now, backfill, admin, transcripts, r2, embeddingModelReady, voice, outcomes, cq, df, vs>>

ReplyErrorRejects ==
  /\ textHandler.pc = "reply_error"
  /\ textHandler' = [textHandler EXCEPT !.pc = "done"]
  /\ UNCHANGED <<middleware, taste, startup, poll, tz, now, backfill, admin, transcripts, r2, embeddingModelReady, voice, outcomes, cq, df, vs>>

\* A handler that removes from the store the entries it retrieved.
TextReturnConsuming ==
  /\ textHandler.pc = "done"
  /\ textHandler' = TextIdle
  /\ transcripts' = SelectSeq(transcripts,
                              LAMBDA row : \A i \in 1..Len(textHandler.relevantTranscripts) :
                                             textHandler.relevantTranscripts[i].id # row.id)
  /\ UNCHANGED <<middleware, taste, startup, poll, tz, now, backfill, admin, r2, embeddingModelReady, voice, outcomes, cq, df, vs>>

\* The handler has returned; the next text update can be taken.
TextReturn ==
  /\ textHandler.pc = "done"
  /\ textHandler' = TextIdle
  /\ UNCHANGED <<middleware, taste, startup, poll, tz, now, backfill, admin, transcripts, r2, embeddingModelReady, voice, outcomes, cq, df, vs>>

InitText ==
  /\ tz \in TzOffsets
  /\ now \in Nows
  /\ transcripts \in TextStores
  /\ r2 = {}
  /\ embeddingModelReady \in BOOLEAN
  /\ voice = <<>>
  /\ outcomes = {}
  /\ cq = CqInert
  /\ df = DfIdle
  /\ vs = VsIdle
  /\ textHandler = TextIdle
  /\ admin = AdminIdle
  /\ backfill = BackfillIdle
  /\ middleware = MiddlewareIdle
  /\ taste = TasteIdle
  /\ startup = StartupIdle
  /\ poll = PollIdle

NextText ==
  \/ \E q \in UserQueries : TextReceived(q)
  \/ ReplyInitializingResolves
  \/ ReplyInitializingRejects
  \/ \E classification \in Classifications : ClassifyResolves(classification)
  \/ ReplySearchResolves
  \/ ReplySearchRejects
  \/ \E queryEmbedding \in QueryEmbeddings : TextEmbedResolves(queryEmbedding)
  \/ TextEmbedRejects
  \/ ReplyNoneResolves
  \/ ReplyNoneRejects
  \/ \E completion \in Completions : GenerateResolves(completion)
  \/ GenerateRejects
  \/ ReplyAnswerResolves
  \/ ReplyAnswerRejects
  \/ ReplyErrorResolves
  \/ ReplyErrorRejects
  \/ TextReturn

SpecText == InitText /\ [][NextText]_vars

\* The handler has done its retrieval for a classification of a period type.
PeriodRetrieved ==
  /\ textHandler.pc \notin {"idle", "done"}
  /\ textHandler.retrieved
  /\ textHandler.classification.type \in PeriodTypes

\* The local-midnight start of the current day, week (from Sunday), month
\* and year.
PeriodStart(type) ==
  LET today == LocalDay(now)
      first == CASE type = "today" -> today
                 [] type = "week" -> today - DayOfWeek(today)
                 [] type = "month" -> MonthStart(today)
                 [] type = "year" -> YearStart(today)
  IN first * SecondsPerDay - tz

\* C12: for a classification of type today (week, month, year) the
\* retrieval returns exactly the stored entries whose created_at is at or
\* after the local-midnight start of the current day (week, month, year),
\* each once, ordered by created_at descending.
C12_PeriodFetchExact ==
  PeriodRetrieved =>
    LET rows == textHandler.relevantTranscripts
        start == PeriodStart(textHandler.classification.type)
    IN /\ \A i \in 1..Len(transcripts) :
            (transcripts[i].created_at >= start)
              <=> (\E j \in 1..Len(rows) : rows[j] = transcripts[i])
       /\ \A j, k \in 1..Len(rows) : j < k =>
            /\ rows[j].id # rows[k].id
            /\ rows[j].created_at >= rows[k].created_at

\* A query classified 'today' met an entry of yesterday and an entry of
\* today, and only the entry of today was retrieved.
C12_Witness ==
  /\ PeriodRetrieved
  /\ textHandler.classification.type = "today"
  /\ Len(transcripts) = 2
  /\ Len(textHandler.relevantTranscripts) = 1
  /\ \E i \in 1..2 :
       /\ LocalDay(transcripts[i].created_at) = LocalDay(now) - 1
       /\ textHandler.relevantTranscripts[1] # transcripts[i]

\* The handler has called vectorSearch.
Searched == textHandler.pc \notin {"idle", "done"} /\ textHandler.searched

\* C13: for a classification that is not a fixed period, the text embedded
\* is classification.searchTerms when that is non-empty and the raw query
\* otherwise; the entries returned all pass the classification's dateFilter
\* and are min(5, n) of the n embedded entries that pass it.
C13_SemanticArguments ==
  Searched =>
    LET classification == textHandler.classification
        passing == applyDateFilter(EmbeddedRows(transcripts), classification.dateFilter)
        rows == textHandler.relevantTranscripts
    IN /\ classification.type \notin PeriodTypes
       /\ textHandler.searchTerms =
            (IF classification.searchTerms \in {Undefined, ""}
               THEN textHandler.userQuery ELSE classification.searchTerms)
       /\ textHandler.retrieved =>
            /\ ~passing.threw
            /\ Len(rows) = Min(DefaultTopK, Len(passing.rows))
            /\ \A j \in 1..Len(rows) :
                 \E i \in 1..Len(passing.rows) : passing.rows[i] = rows[j]

\* A search with searchTerms 'coffee' and a date filter over a store with
\* more than five embedded entries passing it returned five of them.
C13_Witness ==
  /\ Searched
  /\ textHandler.retrieved
  /\ textHandler.classification.searchTerms = "coffee"
  /\ textHandler.searchTerms = "coffee"
  /\ textHandler.classification.dateFilter.k = "array"
  /\ Len(EmbeddedRows(transcripts)) > DefaultTopK
  /\ Len(textHandler.relevantTranscripts) = DefaultTopK

\* Two scores are equal numbers.
SameScore(x, y) == x.k = "num" /\ y.k = "num" /\ ~SimLess(x, y) /\ ~SimLess(y, x)

ScoreOf(row) == cosineSimilarity(vs.queryEmbedding, bufferToEmbedding(row.embedding))

\* C14 (as claimed): in a vectorSearch result whose scores are all numbers,
\* entries with equal score are ordered more recent created_at first, and an
\* entry omitted at the topK cut is not more recent than a returned entry of
\* the same score.
C14_TiesMostRecentFirst ==
  (vs.pc = "done" /\ vs.error = "none"
     /\ \A j \in 1..Len(Candidates) : ScoreOf(Candidates[j]).k = "num") =>
    LET res == vs.results
        returned == {res[i].row.id : i \in 1..Len(res)}
    IN /\ \A i, j \in 1..Len(res) :
            (i < j /\ SameScore(res[i].similarity, res[j].similarity))
              => res[i].row.created_at >= res[j].row.created_at
       /\ \A j \in 1..Len(Candidates) :
            Candidates[j].id \notin returned =>
              \A i \in 1..Len(res) :
                SameScore(ScoreOf(Candidates[j]), res[i].similarity)
                  => Candidates[j].created_at <= res[i].row.created_at

\* The handler refuses the query with the 'still initializing' message.
Refused ==
  /\ textHandler.pc # "idle"
  /\ \/ textHandler.pc = "reply_initializing"
     \/ \E i \in 1..Len(textHandler.sent) : textHandler.sent[i] = "initializing"

\* C15 (as claimed): while the embedding model is not ready only semantic
\* search is refused: a query is refused only after it has been classified,
\* and only when its classification is not today, week, month or year.
C15_OnlySemanticRefused ==
  Refused =>
    /\ textHandler.classified
    /\ textHandler.classification.type \notin PeriodTypes

\* The retrieval of the query in progress yielded no entries.
RetrievedNothing ==
  /\ textHandler.pc # "idle"
  /\ textHandler.retrieved
  /\ Len(textHandler.relevantTranscripts) = 0

WasSent(kind) == \E i \in 1..Len(textHandler.sent) : textHandler.sent[i] = kind

\* C16: when the retrieval yields no entries the handler goes on to send the
\* 'no results' message and never calls generateResponse; no answer is sent,
\* and the error message is sent only if the reply carrying the 'no results'
\* message itself was rejected.  On no path is generateResponse invoked with
\* an empty entry list.
C16_EmptyRetrievalNoCompose ==
  /\ textHandler.pc # "idle" =>
       \A i \in 1..Len(textHandler.composed) : Len(textHandler.composed[i]) > 0
  /\ RetrievedNothing =>
       /\ textHandler.composed = <<>>
       /\ textHandler.pc \in {"reply_none", "reply_error", "done"}
       /\ ~WasSent("answer")
       /\ (textHandler.pc = "reply_error" \/ WasSent("error")) => textHandler.failure = "reply"
       /\ (textHandler.pc = "done" /\ textHandler.failure = "none") =>
            textHandler.sent = <<"search", "no results">>

\* A search whose date filter no embedded entry passes ended with the
\* 'no results' message.
C16_Witness ==
  /\ RetrievedNothing
  /\ textHandler.pc = "done"
  /\ textHandler.searched
  /\ textHandler.classification.dateFilter.k = "array"
  /\ Len(EmbeddedRows(transcripts)) > 0
  /\ textHandler.sent = <<"search", "no results">>

\* The retrieval (vectorSearch) or the answer composition (generateResponse)
\* of the query in progress failed.
RetrievalOrComposeFailed ==
  /\ textHandler.pc # "idle"
  /\ textHandler.failure \in {"not initialized", "embedding", "TypeError", "compose"}

\* C17 (as claimed): when retrieval or answer composition fails, no answer
\* text is sent, and once the error message has been delivered it is the
\* single message the user received for the query.
C17_SingleErrorMessage ==
  RetrievalOrComposeFailed =>
    /\ ~WasSent("answer")
    /\ WasSent("error") => textHandler.sent = <<"error">>

\* generateResponse has returned its text for the query in progress.
Composed == textHandler.pc = "reply_answer"

\* C18: the text generateResponse returns ends with a sources section built
\* from the input entries alone: the header count is the number of entries,
\* and line i carries index i and the date, time and duration of the i-th
\* entry, the index the context block gave that entry, whatever text the
\* completion returned.
C18_SourcesFromEntries ==
  Composed =>
    LET entries == textHandler.relevantTranscripts
        response == textHandler.response
        context == ContextBlock(entries)
    IN /\ response.header = Len(entries)
       /\ Len(response.sourcesList) = Len(entries)
       /\ \A i \in 1..Len(entries) :
            /\ response.sourcesList[i].index = i
            /\ response.sourcesList[i].date = ToLocaleDateString(entries[i].created_at)
            /\ response.sourcesList[i].time = ToLocaleTimeString(entries[i].created_at)
            /\ response.sourcesList[i].duration = formatDuration(entries[i].duration)
            /\ context[i].index = response.sourcesList[i].index
            /\ context[i].transcript = entries[i].transcript
            /\ context[i].date.date = response.sourcesList[i].date

\* Two entries of different durations were retrieved and the completion
\* returned a text that holds a sources line of its own.
C18_Witness ==
  /\ Composed
  /\ Len(textHandler.relevantTranscripts) = 2
  /\ textHandler.relevantTranscripts[1].duration # textHandler.relevantTranscripts[2].duration
  /\ textHandler.response.llmResponse = "Sources (9): none"
  /\ textHandler.response.header = 2

\* C19: no entry for a voice message exists before a transcription of that
\* message has completed successfully: every stored row belongs to a message
\* whose transcribeAudio call has resolved, a handler that has not yet passed
\* its transcription has inserted nothing, and neither has a handler whose
\* download or transcription failed.
C19_NoEntryBeforeTranscription ==
  /\ \A i \in 1..Len(transcripts) :
       <<transcripts[i].message_id, "transcribed">> \in outcomes
  /\ \A h \in Handlers :
       (\/ voice[h].pc \in {"react_eyes", "react_dup", "download", "upload", "transcribe"}
        \/ voice[h].failedAt \in {"react_eyes", "react_dup", "download", "transcribe"})
         => ~voice[h].inserted

\* The handling of one message ended after its transcription failed and left
\* no row for it, while another message was stored.
C19_Witness ==
  \E h \in Handlers, g \in Handlers :
    /\ voice[h].pc = "done"
    /\ voice[h].failedAt = "transcribe"
    /\ ~HasMessage(transcripts, voice[h].message_id)
    /\ voice[g].inserted

\* C20 (as claimed): every stored entry has a non-empty transcript in every
\* reachable state.
C20_TranscriptNonEmpty ==
  \A i \in 1..Len(transcripts) : transcripts[i].transcript # ""

(***************************************************************************)
(* Ingestion without an embedding (part_000:756-778)                       *)
(***************************************************************************)
\* Handler h came to its INSERT statement: it is past the embedding step and
\* did not leave the try block earlier.
ReachedInsert(h) ==
  /\ voice[h].pc \in {"react_ok", "react_fail", "done"}
  /\ voice[h].failedAt \in {"none", "react_ok"}
  /\ voice[h].outcome # "duplicate"

\* No other handling of the same message was started.
OnlyHandling(h) ==
  \A g \in Handlers : g # h => voice[g].message_id # voice[h].message_id

\* The row of handler h's message holds h's transcript and no embedding.
StoredWithoutEmbedding(h) ==
  \E i \in 1..Len(transcripts) :
    /\ transcripts[i].message_id = voice[h].message_id
    /\ transcripts[i].transcript = voice[h].transcript
    /\ transcripts[i].embedding = NoEmbedding

\* C21: a handling that came to its INSERT without an embedding (the model
\* was not ready, or generateEmbedding rejected), and that is the only
\* handling of its message, has stored the entry with its transcript and a
\* null embedding; and unless another of its calls rejected it does not enter
\* the error path and ends with the success outcome.
C21_StoredWithoutEmbedding ==
  \A h \in Handlers :
    (ReachedInsert(h) /\ voice[h].embeddingBuffer = NoEmbedding /\ OnlyHandling(h)) =>
      /\ StoredWithoutEmbedding(h)
      /\ ~voice[h].externalFailure =>
           /\ voice[h].pc # "react_fail"
           /\ voice[h].pc = "done" => voice[h].outcome = "stored"

\* The embedding model was ready, generateEmbedding rejected, and the
\* handling ended in success with the row stored without an embedding.
C21_Witness ==
  \E h \in Handlers :
    /\ embeddingModelReady
    /\ voice[h].pc = "done"
    /\ voice[h].outcome = "stored"
    /\ voice[h].embeddingBuffer = NoEmbedding
    /\ voice[h].transcript # ""
    /\ StoredWithoutEmbedding(h)
(***************************************************************************)
(* Edits, deletes and backfill running together                            *)
(***************************************************************************)
\* The step is a write of backfillEmbeddings: its UPDATE statement ran.
BackfillWrites == backfill'.successCount = backfill.successCount + 1

\* C22 (as claimed): every write backfillEmbeddings performs targets an entry
\* whose embedding is absent at the moment of the write: it never overwrites
\* an embedding that is already present.
C22_BackfillOnlyFillsAbsent ==
  [][BackfillWrites =>
       \A i \in 1..Len(transcripts) :
         transcripts[i].id = Head(backfill.records).id =>
           transcripts[i].embedding = NoEmbedding]_vars

\* An edit or a backfill write for the entry is still pending.
WritePending(id) ==
  \/ \E r \in Requests : admin.reqs[r].kind = "put" /\ admin.reqs[r].id = id
                          /\ admin.reqs[r].pc # "done"
  \/ /\ backfill.pc = "embed"
     /\ \E k \in 1..Len(backfill.records) : backfill.records[k].id = id

\* C23 (as claimed): once an edit of an entry has returned success and no
\* other edit or backfill write for the entry is pending, the entry's
\* embedding is the one computed from its current transcript.
C23_EmbeddingFollowsEdit ==
  \A r \in Requests :
    (admin.reqs[r].kind = "put" /\ admin.reqs[r].pc = "done"
       /\ admin.reqs[r].status = 200 /\ ~WritePending(admin.reqs[r].id)) =>
      \A i \in 1..Len(transcripts) :
        transcripts[i].id = admin.reqs[r].id =>
          transcripts[i].embedding = embeddingToBuffer(EmbeddingOf(transcripts[i].transcript))

\* C24 (as claimed): after a delete request has returned success neither the
\* entry's row nor its archived audio object exists.
C24_DeleteRemovesRowAndBlob ==
  \A r \in Requests :
    (admin.reqs[r].kind = "delete" /\ admin.reqs[r].pc = "done"
       /\ admin.reqs[r].status = 200) =>
      /\ ~HasId(transcripts, admin.reqs[r].id)
      /\ admin.reqs[r].key \notin r2
(***************************************************************************)
(* Scores of mismatched and of all-zero embeddings                         *)
(***************************************************************************)
\* The stored vector of a row.
StoredVector(row) == bufferToEmbedding(row.embedding)

\* C25 (as claimed): a search that ends without an error has scored no entry
\* whose stored embedding differs in length from the query embedding: a
\* mismatch is reported as an error, never scored and ranked.
C25_DimensionMismatchFatal ==
  (vs.pc = "done" /\ vs.error = "none") =>
    \A j \in 1..Len(Candidates) :
      Len(StoredVector(Candidates[j])) = Len(vs.queryEmbedding)

AllZero(vec) == \A i \in 1..Len(vec) : vec[i] = 0

\* C26 (as claimed): an all-zero vector never reaches the division: in a
\* search that ends without an error every returned entry whose stored
\* embedding is all-zero (and of the query's length) has a score that is a
\* number.
C26_ZeroVectorGuarded ==
  (vs.pc = "done" /\ vs.error = "none") =>
    \A i \in 1..Len(vs.results) :
      (AllZero(StoredVector(vs.results[i].row))
         /\ Len(StoredVector(vs.results[i].row)) = Len(vs.queryEmbedding))
        => vs.results[i].similarity.k = "num"
\* C27 (as claimed): no exception escapes a handler: no handling of a voice
\* message ends with the handler's promise rejected, whichever of its
\* external calls fail.
C27_NoExceptionEscapes ==
  \A h \in Handlers : voice[h].outcome # "rejected"
\* 00:00:00 UTC of calendar day d, the midnight parseDateFilter computes.
UtcMidnight(d) == d * SecondsPerDay

\* The filter is the single element {start: S, end: E} with two dates.
StartEndPair(dateFilter) ==
  /\ dateFilter.k = "array"
  /\ Len(dateFilter.items) = 1
  /\ dateFilter.items[1].kind = "obj"
  /\ dateFilter.items[1].date.k = "absent"
  /\ dateFilter.items[1].start.k = "day"
  /\ dateFilter.items[1].end.k = "day"

\* C28 (as claimed): under the filter {start: S, end: E} an entry passes if
\* and only if its created_at lies from 00:00:00 of day S up to, but not
\* including, 00:00:00 of the day after E.
C28_RangeInclusiveOfEndDay ==
  (df.pc = "done" /\ df.op = "apply" /\ ~df.out.threw /\ StartEndPair(df.dateFilter)) =>
    LET S == df.dateFilter.items[1].start.d
        E == df.dateFilter.items[1].end.d
    IN \A i \in 1..Len(df.rows) :
         Passes(df.rows[i], df.out)
           <=> /\ UtcMidnight(S) <= df.rows[i].created_at
               /\ df.rows[i].created_at < UtcMidnight(E + 1)
(***************************************************************************)
(* parseDateFilter of the string grammar (src/index.js:744-817)            *)
(*                                                                         *)
(* A string is the sequence of its pieces: a word such as "this_year", or  *)
(* single characters.                                                      *)
(***************************************************************************)
Jan1_2024 == 19723
Jan1_2027 == 20819

StringOf(pieces) == [k |-> "string", items |-> pieces]

Digits == {"0", "1", "2", "3", "4", "5", "6", "7", "8", "9"}

DigitValue(c) ==
  CASE c = "0" -> 0 [] c = "1" -> 1 [] c = "2" -> 2 [] c = "3" -> 3 [] c = "4" -> 4
    [] c = "5" -> 5 [] c = "6" -> 6 [] c = "7" -> 7 [] c = "8" -> 8 [] c = "9" -> 9

\* parseInt of a string of digits.
RECURSIVE parseInt(_)
parseInt(s) ==
  IF s = <<>> THEN 0
  ELSE parseInt(SubSeq(s, 1, Len(s) - 1)) * 10 + DigitValue(s[Len(s)])

\* /^(\d{4})-(\d{4})$/ and /^(\d{4})$/
RangeMatch(s) ==
  /\ Len(s) = 9
  /\ \A i \in (1..4) \cup (6..9) : s[i] \in Digits
  /\ s[5] = "-"
YearMatch(s) == Len(s) = 4 /\ \A i \in 1..4 : s[i] \in Digits

\* Date.prototype.getFullYear of a local day, and the day of 1 January of
\* a year, for 2024 to 2027.
getFullYear(d) ==
  IF d >= Jan1_2027 THEN 2027 ELSE IF d >= Jan1_2026 THEN 2026
  ELSE IF d >= Jan1_2025 THEN 2025 ELSE 2024
FirstOfYear(year) ==
  CASE year = 2024 -> Jan1_2024 [] year = 2025 -> Jan1_2025
    [] year = 2026 -> Jan1_2026 [] year = 2027 -> Jan1_2027

\* The same instant taken with Date.UTC(year, 0, 1).
NewDateUtc(year) == FirstOfYear(year) * SecondsPerDay

\* Math.floor(new Date(year, 0, 1).getTime() / 1000): local midnight.
NewDate(year) == LocalMidnight(FirstOfYear(year))

\* The object a branch returns, as parseDateFilter's result record.
OneRange(start, end, description) ==
  [threw |-> FALSE, isNull |-> FALSE,
   ranges |-> <<[start |-> Num(start), end |-> end, form |-> description,
                 a |-> Absent, b |-> Absent]>>]

parseDateFilterString(dateFilter) ==
  LET s == dateFilter.items
      today == LocalDay(now)
  IN IF s = <<>> THEN parseDateFilter(NoFilter)
     ELSE IF s = <<"this_year">>
       THEN OneRange(NewDate(getFullYear(today)), JsNull, "this year")
     ELSE IF s = <<"this_month">>
       THEN OneRange(LocalMidnight(MonthStart(today)), JsNull, "this month")
     ELSE IF s = <<"this_week">>
       THEN OneRange(LocalMidnight(today - DayOfWeek(today)), JsNull, "this week")
     ELSE IF s = <<"last_year">>
       THEN OneRange(NewDate(getFullYear(today) - 1), Num(NewDate(getFullYear(today))),
                     "last year")
     ELSE IF RangeMatch(s)
       THEN OneRange(NewDate(parseInt(SubSeq(s, 1, 4))),
                     Num(NewDate(parseInt(SubSeq(s, 6, 9)) + 1)), "range")
     ELSE IF YearMatch(s)
       THEN OneRange(NewDate(parseInt(s)), Num(NewDate(parseInt(s) + 1)), "year")
     ELSE parseDateFilter(NoFilter)

\* The strings the older classifier prompt asks for, with a few others.
DateStrings ==
  {StringOf(s) : s \in
     {<<>>, <<"this_year">>, <<"this_month">>, <<"this_week">>, <<"last_year">>,
      <<"tomorrow">>, <<"2", "0", "2", "5">>, <<"2", "0", "2", "6">>,
      <<"2", "0", "2", "5", "-", "2", "0", "2", "6">>,
      <<"2", "0", "2", "5", "-", "2", "0", "2", "5">>,
      <<"2", "0", "2", "5", "6">>}}

\* Clock values: mid-month, and shortly after midnight UTC of a Tuesday, of
\* New Year's Day and of the first of a month that is a Sunday.
DateNows ==
  Nows \cup {Jan1_2026 * SecondsPerDay + 3600, Feb1_2026 * SecondsPerDay + 10800}

\* parseDateFilter(dateFilter) of the string grammar is called and returns.
ParseDateStringCall(dateFilter) ==
  /\ df.pc = "idle"
  /\ df' = [DfIdle EXCEPT !.pc = "done", !.op = "parse_string", !.dateFilter = dateFilter,
                          !.parsed = parseDateFilterString(dateFilter)]
  /\ UNCHANGED <<middleware, taste, startup, poll, tz, now, backfill, textHandler, admin, transcripts, r2, embeddingModelReady, voice, outcomes, cq, vs>>

InitDateString ==
  /\ tz \in TzOffsets
  /\ now \in DateNows
  /\ transcripts = <<>>
  /\ r2 = {}
  /\ embeddingModelReady = TRUE
  /\ voice = <<>>
  /\ outcomes = {}
  /\ cq = CqInert
  /\ df = DfIdle
  /\ vs = VsIdle
  /\ textHandler = TextIdle
  /\ admin = AdminIdle
  /\ backfill = BackfillIdle
  /\ middleware = MiddlewareIdle
  /\ taste = TasteIdle
  /\ startup = StartupIdle
  /\ poll = PollIdle

NextDateString ==
  \/ \E dateFilter \in DateStrings : ParseDateStringCall(dateFilter)
  \/ DateFilterReturn

SpecDateString == InitDateString /\ [][NextDateString]_vars

\* The first days of the years and of the months of the calendar.
NewYearDays == {Jan1_2024, Jan1_2025, Jan1_2026, Jan1_2027}
FirstOfMonthDays == {Dec1_2025, Jan1_2026, Feb1_2026}

\* d is the last day of the set that is not after the local day of the clock.
Current(d, days) ==
  /\ d \in days
  /\ d <= LocalDay(now)
  /\ \A e \in days : e <= LocalDay(now) => e <= d

\* The parser returned one range that starts at local midnight of day d.
StartsAt(d) ==
  /\ ~df.parsed.threw /\ ~df.parsed.isNull
  /\ Len(df.parsed.ranges) = 1
  /\ df.parsed.ranges[1].start = Num(LocalMidnight(d))

\* The range is open-ended from day d on, or is [midnight of d, midnight of e).
YieldsFrom(d) == StartsAt(d) /\ df.parsed.ranges[1].end = JsNull
YieldsRange(d, e) == StartsAt(d) /\ df.parsed.ranges[1].end = Num(LocalMidnight(e))

C30_QueryLeavesStoreUnchanged ==
  [][transcripts' = transcripts /\ r2' = r2]_vars

\* A query over a non-empty store that retrieved entries has ended, answered
\* or with the error message.
C30_Witness ==
  /\ Len(transcripts) > 0
  /\ textHandler.pc = "done"
  /\ textHandler.sent \in {<<"search", "answer">>, <<"search", "error">>}
  /\ Len(textHandler.relevantTranscripts) > 0
(***************************************************************************)
(* The authorization middleware (telegram-helpers.js:84-93), installed     *)
(* with bot.use before every handler is registered (part_000:476-480), so  *)
(* each update passes it first and a handler is entered only from its      *)
(* call of next().                                                         *)
(***************************************************************************)
\* parseInt(process.env.AUTHORIZED_USER_ID): startup exits unless it is a
\* non-zero number (part_000:391, 402-406).
AUTHORIZED_USER_ID == 1001

MaxUpdates == 3

\* ctx.from of an update: absent, the authorized user, or somebody else.
From(id) == [present |-> TRUE, id |-> id]
Senders == {NoFrom, From(AUTHORIZED_USER_ID), From(AUTHORIZED_USER_ID + 1)}

\* A middleware that compares the id only when the update has a sender.
AuthMiddlewareSkipsAbsent(authorizedUserId, from) ==
  ~from.present \/ from.id = authorizedUserId

\* Whether the middleware calls next(): `ctx.from?.id !== authorizedUserId`
\* is true for an absent sender (undefined !== number) and for another id,
\* and then the middleware returns without calling it.
createAuthMiddleware(authorizedUserId, from) ==
  from.present /\ from.id = authorizedUserId

\* Telegram delivers a voice update sent by `from`: the middleware runs and,
\* if it calls next(), bot.on('voice') is entered in the same turn.
UpdateReceived(from, update) ==
  /\ middleware.updates < MaxUpdates
  /\ LET next == createAuthMiddleware(AUTHORIZED_USER_ID, from) IN
       /\ middleware' = [updates |-> middleware.updates + 1, from |-> from, next |-> next]
       /\ IF next
            THEN /\ Len(voice) < MaxDeliveries
                 /\ voice' = EnterHandler(update)
            ELSE UNCHANGED voice
  /\ UNCHANGED <<taste, startup, poll, tz, now, backfill, textHandler, admin, transcripts, r2,
                 embeddingModelReady, outcomes, cq, df, vs>>

InitAuth == InitVoice

NextAuth ==
  \/ \E from \in Senders, update \in VoiceUpdates : UpdateReceived(from, update)
  \/ \E h \in Handlers : ReactEyesResolves(h)
  \/ \E h \in Handlers : ReactEyesRejects(h)
  \/ \E h \in Handlers : ReactDupResolves(h)
  \/ \E h \in Handlers : ReactDupRejects(h)
  \/ \E h \in Handlers : DownloadResolves(h)
  \/ \E h \in Handlers : DownloadRejects(h)
  \/ \E h \in Handlers, ok \in BOOLEAN : UploadResolves(h, ok)
  \/ \E h \in Handlers, transcript \in Transcriptions : TranscribeResolves(h, transcript)
  \/ \E h \in Handlers : TranscribeRejects(h)
  \/ \E h \in Handlers : EmbedResolves(h)
  \/ \E h \in Handlers : EmbedRejects(h)
  \/ \E h \in Handlers : ReactOkResolves(h)
  \/ \E h \in Handlers : ReactOkRejects(h)
  \/ \E h \in Handlers : ReactFailResolves(h)
  \/ \E h \in Handlers : ReactFailRejects(h)

SpecAuth == InitAuth /\ [][NextAuth]_vars

\* The sender of the update is the authorized user.
IsAuthorized(from) == from.present /\ from.id = AUTHORIZED_USER_ID

\* C31: the step in which an update from anybody but the authorized user
\* (or an update without a sender) is received enters no handler and
\* performs none of a handler's effects: the handler instances, with their
\* reactions, downloads and uploads, the recorded outcomes, the transcripts
\* table and the archived objects are all as before.
C31_UnauthorizedIgnored ==
  [][(middleware'.updates # middleware.updates /\ ~IsAuthorized(middleware'.from))
       => UNCHANGED <<voice, outcomes, transcripts, r2>>]_vars

\* An update of a stranger was received and ignored while a handler entered
\* for the authorized user is running.
C31_Witness ==
  /\ middleware.updates > 1
  /\ middleware.from = From(AUTHORIZED_USER_ID + 1)
  /\ ~middleware.next
  /\ \E h \in Handlers : voice[h].pc = "download"
(***************************************************************************)
(* The taste bot (src/taste-bot.js): bot.on('message') stores submissions, *)
(* bot.on('voice') links a voice memo to a submission and stores it as an  *)
(* annotation.  Both run behind the authorization middleware               *)
(* (taste-bot.js:115), so every update is the authorized user's.  Message  *)
(* ids grow with every message of the chat; message dates are in whole     *)
(* seconds and never decrease.  A voice memo is delivered when the handler *)
(* of the previous memo has returned; other messages arrive at any time.   *)
(***************************************************************************)
MaxTasteMessages == 4

NoLink == [found |-> FALSE, submissionId |-> 0, linkType |-> "none"]
Link(submissionId, linkType) ==
  [found |-> TRUE, submissionId |-> submissionId, linkType |-> linkType]

NoMemo ==
  [pc |-> "idle", message_id |-> 0, date |-> 0, reply_to |-> 0, link |-> NoLink,
   tempFile |-> FALSE, outcome |-> "none"]

\* The messages the user can send next: message_id, date, and the id of
\* the message replied to (0: not a reply).
TasteUpdates ==
  [message_id : {taste.sent + 1}, date : {taste.clock, taste.clock + 1},
   reply_to : 0..taste.sent]

\* storeSubmission (taste-bot.js:118-137): INSERT INTO submissions; the id
\* is the rowid.
storeSubmission(submissions, messageId, userId, createdAt) ==
  Append(submissions, [id |-> Len(submissions) + 1, message_id |-> messageId,
                       user_id |-> userId, created_at |-> createdAt])

\* The rows a `SELECT ... ORDER BY created_at DESC LIMIT 1` can return: any
\* row with the greatest created_at (SQL leaves the order of ties open).
MostRecent(rows) ==
  {r \in rows : \A q \in rows : q.created_at <= r.created_at}

\* A lookup that knows no voice-reply chaining: a memo replying to a voice
\* memo is treated as no reply at all.
findWithoutChaining(replyTo, timestamp, userId, submissions, annotations) ==
  LET subs == {submissions[i] : i \in 1..Len(submissions)}
      submission == {s \in subs : s.message_id = replyTo /\ s.user_id = userId}
      recent == MostRecent({s \in subs : s.user_id = userId /\ s.created_at < timestamp})
  IN IF replyTo # 0 /\ submission # {}
       THEN {Link(s.id, "reply") : s \in submission}
     ELSE IF recent = {}
       THEN {NoLink}
     ELSE {Link(r.id, "sequential") : r \in recent}

\* findSubmissionForVoiceMemo (taste-bot.js:140-197): the results the lookup
\* can return.
findSubmissionForVoiceMemo(replyTo, timestamp, userId, submissions, annotations) ==
  LET subs == {submissions[i] : i \in 1..Len(submissions)}
      anns == {annotations[i] : i \in 1..Len(annotations)}
      submission == {s \in subs : s.message_id = replyTo /\ s.user_id = userId}
      annotation == {a \in anns : a.message_id = replyTo}
      recent == MostRecent({s \in subs : s.user_id = userId /\ s.created_at < timestamp})
      between(r) == {s \in subs : /\ s.user_id = userId
                                  /\ s.created_at > r.created_at
                                  /\ s.created_at < timestamp}
  IN IF replyTo # 0 /\ submission # {}
       THEN {Link(s.id, "reply") : s \in submission}
     ELSE IF replyTo # 0 /\ annotation # {}
       THEN {Link(a.submission_id, "voice_reply") : a \in annotation}
     ELSE IF recent = {}
       THEN {NoLink}
     ELSE {IF Cardinality(between(r)) = 0 THEN Link(r.id, "sequential") ELSE NoLink
             : r \in recent}

\* bot.on('message') (taste-bot.js:289-379) for a message with content (a
\* URL, a photo, ...): the submission is stored before the first await; for
\* a plain text nothing is stored.
TasteMessage(update, hasContent) ==
  /\ taste.sent < MaxTasteMessages
  /\ taste' = [taste EXCEPT
       !.sent = update.message_id,
       !.clock = update.date,
       !.submissions = IF hasContent
                         THEN storeSubmission(@, update.message_id, AUTHORIZED_USER_ID,
                                              update.date)
                         ELSE @]
  /\ UNCHANGED <<middleware, startup, poll, tz, now, backfill, textHandler, admin, transcripts,
                 r2, embeddingModelReady, voice, outcomes, cq, df, vs>>

\* bot.on('voice') is entered and awaits ctx.react('eyes')
\* (taste-bot.js:200-207).
TasteVoiceDelivered(update) ==
  /\ taste.sent < MaxTasteMessages
  /\ taste.memo.pc \in {"idle", "done"}
  /\ taste' = [taste EXCEPT
       !.sent = update.message_id,
       !.clock = update.date,
       !.memo = [NoMemo EXCEPT !.pc = "react_eyes", !.message_id = update.message_id,
                               !.date = update.date, !.reply_to = update.reply_to]]
  /\ UNCHANGED <<middleware, startup, poll, tz, now, backfill, textHandler, admin, transcripts,
                 r2, embeddingModelReady, voice, outcomes, cq, df, vs>>

\* ctx.react('eyes') resolves: the lookup, then the tip for an unlinked memo
\* or the download (taste-bot.js:207-222).
TasteReactEyesResolves(link) ==
  /\ taste.memo.pc = "react_eyes"
  /\ link \in findSubmissionForVoiceMemo(taste.memo.reply_to, taste.memo.date,
                                         AUTHORIZED_USER_ID, taste.submissions,
                                         taste.annotations)
  /\ taste' = [taste EXCEPT !.memo.link = link,
                            !.memo.pc = IF link.found THEN "download" ELSE "reply_tip"]
  /\ UNCHANGED <<middleware, startup, poll, tz, now, backfill, textHandler, admin, transcripts,
                 r2, embeddingModelReady, voice, outcomes, cq, df, vs>>

\* The await that follows each await of the handler when it resolves
\* without more ado (taste-bot.js:213-217, 222-226, 266-279, 283-284).
\* uploadFileToR2 catches its own errors (r2-client.js:52-68).
AfterAwait(pc) ==
  CASE pc = "reply_tip" -> "react_question"
    [] pc = "react_question" -> "done"
    [] pc = "download" -> "upload"
    [] pc = "upload" -> "transcribe"
    [] pc = "react_ok" -> "reply_linked"
    [] pc = "reply_linked" -> "done"
    [] pc = "react_fail" -> "reply_fail"
    [] pc = "reply_fail" -> "done"

TasteAwaitResolves ==
  /\ taste.memo.pc \in {"reply_tip", "react_question", "download", "upload", "react_ok",
                        "reply_linked", "react_fail", "reply_fail"}
  /\ taste' = [taste EXCEPT
       !.memo.pc = AfterAwait(taste.memo.pc),
       !.memo.tempFile = @ \/ taste.memo.pc = "download",
       !.memo.outcome = IF AfterAwait(taste.memo.pc) = "done" THEN "returned" ELSE @]
  /\ UNCHANGED <<middleware, startup, poll, tz, now, backfill, textHandler, admin, transcripts,
                 r2, embeddingModelReady, voice, outcomes, cq, df, vs>>

\* An await of the try block rejects: the catch block reacts and replies
\* (taste-bot.js:281-285); an await of the catch block rejects: so does the
\* handler.
TasteAwaitRejects ==
  /\ taste.memo.pc \in {"react_eyes", "reply_tip", "react_question", "download", "transcribe",
                        "react_ok", "reply_linked", "react_fail", "reply_fail"}
  /\ taste' = [taste EXCEPT
       !.memo.pc = IF taste.memo.pc \in {"react_fail", "reply_fail"}
                     THEN "done" ELSE "react_fail",
       !.memo.outcome = IF taste.memo.pc \in {"react_fail", "reply_fail"}
                          THEN "rejected" ELSE @]
  /\ UNCHANGED <<middleware, startup, poll, tz, now, backfill, textHandler, admin, transcripts,
                 r2, embeddingModelReady, voice, outcomes, cq, df, vs>>

\* INSERT INTO annotations, then unlinkSync(tempFilePath), up to the await
\* of ctx.react('thumbs up') (taste-bot.js:242-266).  reply_to is no column
\* of the table: it keeps the memo's reply_to_message for the properties.
InsertAnnotation(embedded) ==
  [taste EXCEPT
     !.annotations = Append(@, [submission_id |-> taste.memo.link.submissionId,
                                message_id |-> taste.memo.message_id,
                                created_at |-> taste.memo.date,
                                link_type |-> taste.memo.link.linkType,
                                embedded |-> embedded,
                                reply_to |-> taste.memo.reply_to]),
     !.memo.tempFile = FALSE,
     !.memo.pc = "react_ok"]

\* transcribeAudio resolves: generateEmbedding is awaited if the model is
\* ready, else the annotation is stored at once (taste-bot.js:229-240).
TasteTranscribeResolves ==
  /\ taste.memo.pc = "transcribe"
  /\ taste' = IF embeddingModelReady THEN [taste EXCEPT !.memo.pc = "embed"]
                                     ELSE InsertAnnotation(FALSE)
  /\ UNCHANGED <<middleware, startup, poll, tz, now, backfill, textHandler, admin, transcripts,
                 r2, embeddingModelReady, voice, outcomes, cq, df, vs>>

\* generateEmbedding resolves, or rejects and is caught (taste-bot.js:233-240).
TasteEmbedSettles(ok) ==
  /\ taste.memo.pc = "embed"
  /\ taste' = InsertAnnotation(ok)
  /\ UNCHANGED <<middleware, startup, poll, tz, now, backfill, textHandler, admin, transcripts,
                 r2, embeddingModelReady, voice, outcomes, cq, df, vs>>

InitTaste ==
  /\ tz = 0
  /\ transcripts = <<>>
  /\ r2 = {}
  /\ embeddingModelReady \in BOOLEAN
  /\ voice = <<>>
  /\ outcomes = {}
  /\ cq = CqInert
  /\ df = DfIdle
  /\ vs = VsIdle
  /\ now = 0
  /\ textHandler = TextIdle
  /\ admin = AdminIdle
  /\ backfill = BackfillIdle
  /\ middleware = MiddlewareIdle
  /\ taste = [pc |-> "running", submissions |-> <<>>, annotations |-> <<>>, sent |-> 0,
              clock |-> Jan15_2026 * SecondsPerDay, memo |-> NoMemo]
  /\ startup = StartupIdle
  /\ poll = PollIdle

NextTaste ==
  \/ \E update \in TasteUpdates, hasContent \in BOOLEAN : TasteMessage(update, hasContent)
  \/ \E update \in TasteUpdates : TasteVoiceDelivered(update)
  \/ \E link \in {NoLink} \cup {Link(i, t) : i \in 1..MaxTasteMessages,
                                             t \in {"reply", "voice_reply", "sequential"}} :
       TasteReactEyesResolves(link)
  \/ TasteAwaitResolves
  \/ TasteAwaitRejects
  \/ TasteTranscribeResolves
  \/ \E ok \in BOOLEAN : TasteEmbedSettles(ok)

SpecTaste == InitTaste /\ [][NextTaste]_vars
\* The stored submissions and annotations, and the memo being handled once
\* its lookup has been made.
Submissions == {taste.submissions[i] : i \in 1..Len(taste.submissions)}
Annotations == {taste.annotations[i] : i \in 1..Len(taste.annotations)}
LookedUp ==
  taste.memo.pc \in {"reply_tip", "react_question", "download", "upload", "transcribe",
                     "embed", "react_ok", "reply_linked"}

\* The submission a chain of replies starting at message `replyTo` leads to:
\* the submission replied to, or the one the voice memo replied to leads to.
RECURSIVE ChainEnd(_)
ChainEnd(a) ==
  IF \E s \in Submissions : s.message_id = a.reply_to
    THEN (CHOOSE s \in Submissions : s.message_id = a.reply_to).id
  ELSE IF \E b \in Annotations : b.message_id = a.reply_to
    THEN ChainEnd(CHOOSE b \in Annotations : b.message_id = a.reply_to)
  ELSE a.submission_id

Preceding ==
  {s \in Submissions : /\ s.message_id < taste.memo.message_id
                       /\ \A q \in Submissions :
                            q.message_id < taste.memo.message_id =>
                              q.message_id <= s.message_id}

\* C33: a voice memo that is not a reply is linked with link type
\* 'sequential' to the submission sent last before it, whatever number of
\* voice memos and other messages lie between them, and to no other
\* submission; without an earlier submission it is not linked.
C33_SequentialLinksToPreceding ==
  (LookedUp /\ taste.memo.reply_to = 0) =>
    /\ \A s \in Preceding : taste.memo.link = Link(s.id, "sequential")
    /\ Preceding = {} => taste.memo.link = NoLink
(***************************************************************************)
(* Startup of the process (part_000:362-922).  The main module imports     *)
(* admin-server.js and lib/r2-client.js statically, so both are evaluated  *)
(* before the first statement of the main module runs; then the main       *)
(* module validates the environment, calls initializeR2Client and          *)
(* initializeEmbeddingModel, registers the handlers, calls                 *)
(* startAdminServer and launches the bot.  Once the module has been        *)
(* evaluated the process serves text queries and admin audio requests.     *)
(***************************************************************************)
MaxQueries == 2
MaxAudioRequests == 2

\* The environment: the required variables (part_000:402-412),
\* ADMIN_PASSWORD (admin-server.js:9) and the three R2 credentials
\* (part_000:395-397).
Environments ==
  [required : BOOLEAN, adminPassword : BOOLEAN, r2Credentials : BOOLEAN]

\* r2-client.js:4 `let r2Client = null` and telegram-helpers.js:143
\* `let embeddingModelReady = false`: both modules are evaluated first.
Started(env) ==
  [pc |-> "imports", env |-> env, r2Client |-> FALSE, adminR2Client |-> FALSE,
   listening |-> FALSE, launched |-> FALSE, embedInit |-> "not called",
   backfill |-> "not called", refused |-> 0, served |-> 0, audio |-> <<>>]

\* admin-server.js is evaluated: `const r2Client = getR2Client()` copies the
\* reference the shared module holds at this moment (admin-server.js:22-23,
\* r2-client.js:75-77).
EvaluateAdminServer ==
  /\ startup.pc = "imports"
  /\ startup' = [startup EXCEPT !.pc = "main", !.adminR2Client = startup.r2Client]
  /\ UNCHANGED <<middleware, taste, poll, tz, now, backfill, textHandler, admin, transcripts,
                 r2, embeddingModelReady, voice, outcomes, cq, df, vs>>

\* initializeR2Client (r2-client.js:14-37): with a credential missing it
\* returns null and leaves the shared reference as it is.
initializeR2Client(r2Client, credentials) ==
  IF ~credentials THEN r2Client ELSE TRUE

\* The main module up to the registration of the handlers (part_000:
\* 384-480): exit(1) without the required variables, initializeR2Client,
\* and the call of initializeEmbeddingModel, whose `await embed('test')` is
\* pending from here on.
EvaluateMain ==
  /\ startup.pc = "main"
  /\ startup' = IF ~startup.env.required
                  THEN [startup EXCEPT !.pc = "exited"]
                  ELSE [startup EXCEPT
                          !.pc = "start_admin",
                          !.r2Client = initializeR2Client(@, startup.env.r2Credentials),
                          !.embedInit = "pending"]
  /\ UNCHANGED <<middleware, taste, poll, tz, now, backfill, textHandler, admin, transcripts,
                 r2, embeddingModelReady, voice, outcomes, cq, df, vs>>

\* `startAdminServer().catch(...)` (part_000:881).  Without ADMIN_PASSWORD
\* startAdminServer returns null (admin-server.js:998-1002), and `.catch` of
\* null throws a TypeError at the top level of the module: the process
\* ends.  With it the server listens (admin-server.js:1004-1011).
StartAdminServer ==
  /\ startup.pc = "start_admin"
  /\ startup' = IF startup.env.adminPassword
                  THEN [startup EXCEPT !.pc = "launch", !.listening = TRUE]
                  ELSE [startup EXCEPT !.pc = "crashed"]
  /\ UNCHANGED <<middleware, taste, poll, tz, now, backfill, textHandler, admin, transcripts,
                 r2, embeddingModelReady, voice, outcomes, cq, df, vs>>

\* bot.launch (part_000:885-912): the module has been evaluated.
BotLaunch ==
  /\ startup.pc = "launch"
  /\ startup' = [startup EXCEPT !.pc = "running", !.launched = TRUE]
  /\ UNCHANGED <<middleware, taste, poll, tz, now, backfill, textHandler, admin, transcripts,
                 r2, embeddingModelReady, voice, outcomes, cq, df, vs>>

\* `await embed('test')` settles (telegram-helpers.js:149-162): the flag is
\* set to the outcome, and on success the callback of part_000:469-474
\* calls backfillEmbeddings.  Nothing calls initializeEmbeddingModel again.
InitEmbedSettles(success) ==
  /\ startup.pc = "running"
  /\ startup.embedInit = "pending"
  /\ embeddingModelReady' = success
  /\ startup' = [startup EXCEPT
       !.embedInit = IF success THEN "resolved" ELSE "rejected",
       !.backfill = IF success THEN "running" ELSE @]
  /\ UNCHANGED <<middleware, taste, poll, tz, now, backfill, textHandler, admin, transcripts,
                 r2, voice, outcomes, cq, df, vs>>

\* backfillEmbeddings returns (telegram-helpers.js:239-276).
BackfillReturns ==
  /\ startup.backfill = "running"
  /\ startup' = [startup EXCEPT !.backfill = "returned"]
  /\ UNCHANGED <<middleware, taste, poll, tz, now, backfill, textHandler, admin, transcripts,
                 r2, embeddingModelReady, voice, outcomes, cq, df, vs>>

\* A text query arrives (part_000:786-799): refused with 'The embedding
\* model is still initializing' unless the flag is set.
TextQuery ==
  /\ startup.pc = "running"
  /\ startup.refused + startup.served < MaxQueries
  /\ startup' = IF embeddingModelReady
                  THEN [startup EXCEPT !.served = @ + 1]
                  ELSE [startup EXCEPT !.refused = @ + 1]
  /\ UNCHANGED <<middleware, taste, poll, tz, now, backfill, textHandler, admin, transcripts,
                 r2, embeddingModelReady, voice, outcomes, cq, df, vs>>

\* GET /api/voice-journal/audio/:id for an archived entry (admin-server.js:
\* 707-727): `r2Client.send` with the module's reference; on null the
\* TypeError is caught and answered with 500.
AdminAudioRequest ==
  /\ startup.pc = "running"
  /\ startup.listening
  /\ Len(startup.audio) < MaxAudioRequests
  /\ startup' = [startup EXCEPT !.audio =
                   Append(@, [r2Client |-> startup.adminR2Client,
                              status |-> IF startup.adminR2Client THEN 200 ELSE 500])]
  /\ UNCHANGED <<middleware, taste, poll, tz, now, backfill, textHandler, admin, transcripts,
                 r2, embeddingModelReady, voice, outcomes, cq, df, vs>>

InitStartup ==
  /\ tz = 0
  /\ transcripts = <<>>
  /\ r2 = {}
  /\ embeddingModelReady = FALSE
  /\ voice = <<>>
  /\ outcomes = {}
  /\ cq = CqInert
  /\ df = DfIdle
  /\ vs = VsIdle
  /\ now = 0
  /\ textHandler = TextIdle
  /\ admin = AdminIdle
  /\ backfill = BackfillIdle
  /\ middleware = MiddlewareIdle
  /\ taste = TasteIdle
  /\ startup \in {Started(env) : env \in Environments}
  /\ poll = PollIdle

NextStartup ==
  \/ EvaluateAdminServer
  \/ EvaluateMain
  \/ StartAdminServer
  \/ BotLaunch
  \/ \E success \in BOOLEAN : InitEmbedSettles(success)
  \/ BackfillReturns
  \/ TextQuery
  \/ AdminAudioRequest

SpecStartup == InitStartup /\ [][NextStartup]_vars

\* The evaluation of the modules runs to its end, a pending call settles
\* and a started backfill returns; whether queries and requests arrive is
\* up to the users.
SpecStartupFair ==
  /\ SpecStartup
  /\ WF_vars(EvaluateAdminServer \/ EvaluateMain \/ StartAdminServer \/ BotLaunch)
  /\ WF_vars(\E success \in BOOLEAN : InitEmbedSettles(success))
  /\ WF_vars(BackfillReturns)

\* C34 (as claimed): with ADMIN_PASSWORD unset and the required variables
\* set, no port is ever listened on and startup goes through: the process
\* does not end at the call of startAdminServer, so that the launch of
\* the bot is reached.
C34_StartsWithoutAdminPassword ==
  (startup.env.required /\ ~startup.env.adminPassword) =>
    /\ ~startup.listening
    /\ startup.pc # "crashed"

\* C35 (as claimed): with the R2 credentials configured, every admin audio
\* request finds a non-null client in the admin module and is served.
C35_AdminClientInitialized ==
  startup.env.r2Credentials =>
    \A i \in 1..Len(startup.audio) :
      startup.audio[i].r2Client /\ startup.audio[i].status = 200

\* C37 (as claimed): once the process runs, the embedding-ready flag is
\* eventually true, whatever the outcome of the initialization attempt.
C37_EventuallyReady ==
  (startup.pc = "running") ~> embeddingModelReady
\* C36 (as claimed): when a handling of a voice message has finished, the
\* temporary audio file it downloaded is gone, on the success path and on
\* every failure path; so no temp file outlives its handler.
C36_TempFileDeleted ==
  \A h \in Handlers : voice[h].pc = "done" => ~voice[h].tempFile
(***************************************************************************)
(* The long-polling loop of src/bot.js (18-52) with handleVoiceMessage     *)
(* (127-155) and handleMessage (94-119).  poll.queue are the updates       *)
(* Telegram holds for the bot, in the order of their update_id.            *)
(***************************************************************************)
MaxPollUpdates == 3

Max(a, b) == IF a >= b THEN a ELSE b

\* `let offset = 0; fetch();` (bot.js:18-20): the first getUpdates is out.
Polling ==
  [pc |-> "get_updates", offset |-> 0, queue |-> <<>>, msgs |-> <<>>, i |-> 0,
   handler |-> "none", completed |-> {}]

\* The user sends a message or sets a reaction: Telegram queues an update.
UpdateQueued(kind) ==
  /\ poll.pc # "idle"
  /\ Len(poll.queue) < MaxPollUpdates
  /\ poll' = [poll EXCEPT !.queue = Append(@, [update_id |-> Len(@) + 1, kind |-> kind])]
  /\ UNCHANGED <<middleware, taste, startup, tz, now, backfill, textHandler, admin, transcripts,
                 r2, embeddingModelReady, voice, outcomes, cq, df, vs>>

\* What getUpdates({offset}) resolves to: the queued updates from offset on.
getUpdates(queue, offset) == SelectSeq(queue, LAMBDA n : n.update_id >= offset)

\* The offset after the forEach over the reactions of the batch
\* (bot.js:33-38).
RECURSIVE AfterReactions(_, _)
AfterReactions(offset, msgs) ==
  IF msgs = <<>> THEN offset
  ELSE AfterReactions(IF Head(msgs).kind = "reaction"
                        THEN Max(offset, Head(msgs).update_id + 1) ELSE offset,
                      Tail(msgs))

\* The for loop at message i of the batch (bot.js:40-51): the handler of
\* the message is called and awaited; after the last message the next
\* fetch is scheduled with setTimeout.
ForLoop(p) ==
  IF p.i > Len(p.msgs)
    THEN [p EXCEPT !.pc = "timer", !.handler = "none"]
    ELSE [p EXCEPT !.pc = "handling",
                   !.handler = IF p.msgs[p.i].kind = "voice" THEN "get_file_link"
                                                             ELSE "respond"]

\* The awaited handler has returned: the offset passes the message
\* (bot.js:48) and the loop goes on.
HandlerReturned(p) ==
  ForLoop([p EXCEPT !.offset = Max(@, p.msgs[p.i].update_id + 1),
                    !.completed = @ \cup {p.msgs[p.i].update_id},
                    !.i = @ + 1])

\* bot.getUpdates settles (bot.js:22-40).  Rejected, it rejects fetch()
\* before setTimeout is reached: nothing calls fetch again.  Resolved, the
\* reactions are handled first (handleReaction sends its message without
\* awaiting it), then the loop over the other messages begins.
GetUpdatesSettles(ok) ==
  /\ poll.pc = "get_updates"
  /\ poll' = IF ~ok
               THEN [poll EXCEPT !.pc = "stopped"]
               ELSE LET msgs == getUpdates(poll.queue, poll.offset)
                    IN ForLoop([poll EXCEPT
                         !.offset = AfterReactions(@, msgs),
                         !.completed = @ \cup {msgs[k].update_id : k \in
                                                 {j \in 1..Len(msgs) : msgs[j].kind = "reaction"}},
                         !.msgs = SelectSeq(msgs, LAMBDA n : n.kind # "reaction"),
                         !.i = 1])
  /\ UNCHANGED <<middleware, taste, startup, tz, now, backfill, textHandler, admin, transcripts,
                 r2, embeddingModelReady, voice, outcomes, cq, df, vs>>

\* The await the handler is suspended at resolves: bot.getFileLink, then
\* transcribe, in handleVoiceMessage (bot.js:129, 136); respondWithMemory,
\* then bot.sendMessage, in handleMessage (bot.js:106-113).
HandlerAwaitResolves ==
  /\ poll.pc = "handling"
  /\ poll' = CASE poll.handler = "get_file_link" -> [poll EXCEPT !.handler = "transcribe"]
               [] poll.handler = "respond" -> [poll EXCEPT !.handler = "send_message"]
               [] OTHER -> HandlerReturned(poll)
  /\ UNCHANGED <<middleware, taste, startup, tz, now, backfill, textHandler, admin, transcripts,
                 r2, embeddingModelReady, voice, outcomes, cq, df, vs>>

\* It rejects.  bot.getFileLink is awaited outside the try block
\* (bot.js:129), and the catch block of handleVoiceMessage refers to the
\* undeclared `id` (bot.js:150), a ReferenceError: in both cases
\* handleVoiceMessage rejects and with it fetch().  handleMessage catches
\* and returns (bot.js:116-118).
HandlerAwaitRejects ==
  /\ poll.pc = "handling"
  /\ poll' = IF poll.handler \in {"get_file_link", "transcribe"}
               THEN [poll EXCEPT !.pc = "stopped"]
               ELSE HandlerReturned(poll)
  /\ UNCHANGED <<middleware, taste, startup, tz, now, backfill, textHandler, admin, transcripts,
                 r2, embeddingModelReady, voice, outcomes, cq, df, vs>>

\* The timer of setTimeout(fetch, FETCH_TIMEOUT_MS) fires (bot.js:51).
TimerFires ==
  /\ poll.pc = "timer"
  /\ poll' = [poll EXCEPT !.pc = "get_updates"]
  /\ UNCHANGED <<middleware, taste, startup, tz, now, backfill, textHandler, admin, transcripts,
                 r2, embeddingModelReady, voice, outcomes, cq, df, vs>>

InitPoll ==
  /\ tz = 0
  /\ transcripts = <<>>
  /\ r2 = {}
  /\ embeddingModelReady = FALSE
  /\ voice = <<>>
  /\ outcomes = {}
  /\ cq = CqInert
  /\ df = DfIdle
  /\ vs = VsIdle
  /\ now = 0
  /\ textHandler = TextIdle
  /\ admin = AdminIdle
  /\ backfill = BackfillIdle
  /\ middleware = MiddlewareIdle
  /\ taste = TasteIdle
  /\ startup = StartupIdle
  /\ poll = Polling

NextPoll ==
  \/ \E kind \in {"reaction", "voice", "text"} : UpdateQueued(kind)
  \/ \E ok \in BOOLEAN : GetUpdatesSettles(ok)
  \/ HandlerAwaitResolves
  \/ HandlerAwaitRejects
  \/ TimerFires

SpecPoll == InitPoll /\ [][NextPoll]_vars

\* C38 (as claimed): the loop never stops (a getUpdates is out, a handler
\* is awaited or the timer for the next fetch is set) and an update is
\* acknowledged, offset > update_id, only when its handler has completed.
C38_LoopNeverStops ==
  /\ poll.pc # "stopped"
  /\ \A k \in 1..Len(poll.queue) :
       poll.offset > poll.queue[k].update_id =>
         poll.queue[k].update_id \in poll.completed
=============================================================================
